---------------------------- MODULE Spec2Model ----------------------------
(***************************************************************************)
(* A model of the FRBNY operations scraper (Puccimburu/fedao):             *)
(*   - the release-date resolver and the TOA record builders of            *)
(*     CombinedFRBNYScraper (frbny_parser.py) and EnhancedFRBNYParser      *)
(*     (main.py), the cloud entry point scrape_fedao_sources_ai, the       *)
(*     browser runs of fedao.py and of the web renderer    -> Spec         *)
(*   - the MOA record builder FEDAOParser (fedao_parser.py) -> SpecMOA     *)
(*   - the CSV sink FEDAOParser.save_to_csv                 -> SpecCsv     *)
(*   - the output normalizer                                -> SpecNorm    *)
(* Every specification runs over the same variables; the variables of the  *)
(* other parts stay at their initial values.                               *)
(***************************************************************************)
EXTENDS Integers, Sequences, FiniteSets, TLC

VARIABLES
    \* ---- release-date resolver and TOA builders (frbny_parser.py, main.py)
    today,          \* datetime.now(), fixed for the run
    pc,             \* position of the run
    path,           \* the entry point that is running
    operations,     \* the record list being built (operations / processed_data / self.data)
    driver,         \* TRUE when a browser handle is passed to the resolver
    attempt,        \* loop index of extract_release_date_from_web_simple
    release_date,   \* the local release_date (0 is None)
    source,         \* the strategy whose value release_date holds
    range,          \* the page date range release_date was taken from
    tried,          \* the strategies attempted so far, in order
    cand,           \* what each attempted strategy found (0: nothing)
    fetched,        \* TRUE once some HTTP request got a 2xx answer
    pages_left,     \* PDF pages still to process
    outcome,        \* "running", "returned", "none" (None/[]/False returned), "raised"
    handles,        \* browser sessions started and not yet quit
    acquired,       \* browser sessions started by the run
    moa_rows,       \* scrape_fedao_sources_ai: len(moa_data)
    toa_rows,       \* scrape_fedao_sources_ai: len(toa_data)
    toa_done,       \* scrape_fedao_sources_ai: the second source was processed
    \* ---- MOA record builder (fedao_parser.py)
    moa_pc,         \* position of FEDAOParser.parse_tabular_data
    moa_text,       \* the lines of the document
    moa_source,     \* source_date
    moa_i,          \* index of the next line (structured pass) or row (fallback)
    moa_ops,        \* operations
    moa_table,      \* table_rows of parse_fallback_format
    moa_cur,        \* current_operation: <<>> is None, else <<operation>>
    moa_block,      \* the last block turned into records: its securities, the
                    \* amounts matched in it, its individual amounts, the records,
                    \* its text and detected type; the first and last line of
                    \* every block of the structured pass so far
    \* ---- CSV sink (fedao_parser.py)
    csv_file,       \* the file at output_path: does it exist, and its rows
    csv_calls,      \* save_to_csv calls made so far
    csv_last,       \* the arguments of the last call and the file before it
    \* ---- output normalizer (frbny_parser.py, main.py)
    norm_rec,       \* the record passed from stage to stage
    norm_prev,      \* the record before the last stage ran
    norm_ops,       \* the stages applied so far, in order
    \* ---- a parser instance used for several documents (frbny_parser.py, main.py)
    doc_parser,     \* the class of the instance
    doc_data,       \* self.data
    doc_own,        \* the records the last call took from its own document
    doc_ret,        \* what the last call returned
    doc_calls,      \* calls made on the instance so far
    \* ---- process_csv_data on one DataFrame (frbny_parser.py)
    csvd_columns,   \* df.columns
    csvd_rows,      \* the rows of df, a cell per column
    csvd_mapping,   \* column_mapping
    csvd_i,         \* index of the next row of df.iterrows()
    csvd_data,      \* processed_data
    csvd_parsed,    \* the last call of parse_maximum_operation_size: input and result
    csvd_pc,        \* position of process_csv_data
    \* ---- the retry loop of extract_release_date_from_web_simple
    web_log,        \* per attempt of the call: the seconds slept before the
                    \* request and the date the attempt gave (0: it failed)
    \* ---- CombinedFRBNYScraper.run on a new instance (frbny_parser.py)
    run,            \* position, pdf_path, self.data, self.source_type, the
                    \* sources tried and what each returned, the result
    \* ---- the row-pair loop of parse_pdf_table / parse_table on one table
    pdf_table       \* the parser, table, i, operations, and the index of the
                    \* first row of every record appended

dateVars == <<today, pc, path, operations, driver, attempt, release_date, source,
              range, tried, cand, fetched, pages_left, outcome, handles, acquired,
              moa_rows, toa_rows, toa_done>>

moaVars == <<moa_pc, moa_text, moa_source, moa_i, moa_ops, moa_table, moa_cur,
             moa_block>>

csvVars == <<csv_file, csv_calls, csv_last>>

normVars == <<norm_rec, norm_prev, norm_ops>>

extVars == <<doc_parser, doc_data, doc_own, doc_ret, doc_calls,
             csvd_columns, csvd_rows, csvd_mapping, csvd_i, csvd_data, csvd_parsed,
             csvd_pc, web_log, run, pdf_table>>

vars == <<dateVars, moaVars, csvVars, normVars, extVars>>

-----------------------------------------------------------------------------
(***************************************************************************)
(* Bounds of the model.                                                    *)
(***************************************************************************)
MaxOps == 2         \* records in one list
MaxRows == 2        \* rows of one table / lines of one text / DOM rows
MaxPages == 2       \* pages of one PDF

(***************************************************************************)
(* Calendar dates.  A date string "M/D/YYYY" is the record of its three    *)
(* numbers; the empty string is NoDate.  strptime accepts a string only    *)
(* when it names a day of the calendar.                                    *)
(***************************************************************************)
Date(yy, mm, dd) == [y |-> yy, m |-> mm, d |-> dd]
NoDate == Date(0, 0, 0)

DaysInMonth(yy, mm) ==
    IF mm \in {4, 6, 9, 11} THEN 30
    ELSE IF mm = 2
    THEN (IF (yy % 4 = 0 /\ yy % 100 # 0) \/ yy % 400 = 0 THEN 29 ELSE 28)
    ELSE 31

RECURSIVE DaysBeforeMonth(_, _)
DaysBeforeMonth(yy, mm) ==
    IF mm <= 1 THEN 0 ELSE DaysBeforeMonth(yy, mm - 1) + DaysInMonth(yy, mm - 1)

\* datetime.strptime(s, '%m/%d/%Y') succeeds
Strptime(dt) ==
    /\ dt.y >= 1 /\ dt.y <= 9999
    /\ dt.m >= 1 /\ dt.m <= 12
    /\ dt.d >= 1 /\ dt.d <= DaysInMonth(dt.y, dt.m)

\* date.toordinal(): the day count that date subtraction and comparison use
Ordinal(dt) ==
    365 * (dt.y - 1) + ((dt.y - 1) \div 4) - ((dt.y - 1) \div 100)
      + ((dt.y - 1) \div 400) + DaysBeforeMonth(dt.y, dt.m) + dt.d

\* int(dt.strftime('%Y%m%d'))
Strftime(dt) == dt.y * 10000 + dt.m * 100 + dt.d


-----------------------------------------------------------------------------
(***************************************************************************)
(* What the environment supplies: the clock, the pages an HTTP request     *)
(* returns, the rendered DOM, and the rows the builders read.              *)
(***************************************************************************)

\* the dates a page may print; 13/1/2026 matches the pattern and is no date
PageDates == {Date(2026, 6, 13), Date(2026, 7, 14), Date(2025, 7, 14),
              Date(2027, 12, 31), Date(2030, 1, 1), Date(2026, 13, 1)}

NoRange == [s |-> NoDate, e |-> NoDate]
Ranges == [s : PageDates, e : PageDates]

\* an HTTP answer: a transport failure, a page with the pagination table
\* (rng: the range in the first cell of its first row), or a page without
\* it (rng: the range of the first <td> that holds two dates)
Pages == [kind : {"table", "notable"}, rng : Ranges \cup {NoRange}]
             \cup {[kind |-> "error", rng |-> NoRange]}

\* the first-cell texts of the rows of a rendered panel (no rows: the lookup
\* failed or the panel is empty)
DomCells == {NoRange} \cup {r \in Ranges : r.s = Date(2026, 6, 13)}
Doms == {<<>>} \cup UNION {[1..n -> DomCells] : n \in 1..MaxRows}

Rec(od, sd, ty, sec) ==
    [operation_date |-> od, settlement_date |-> sd, operation_type |-> ty,
     security |-> sec, release_date |-> 0]

\* the rows of a CSV, an HTML table or a PDF table, release_date still blank
InputRecs ==
    { Rec(Date(2026, 6, 20), NoDate, "Purchase", ""),
      Rec(Date(2026, 7, 1), Date(2026, 6, 23), "", "Bills"),
      Rec(Date(2026, 13, 45), Date(2026, 6, 23), "Purchase", ""),
      Rec(Date(2026, 13, 45), NoDate, "", "Bills"),
      Rec(Date(2026, 6, 20), NoDate, "", ""),
      Rec(NoDate, NoDate, "Purchase", ""),
      Rec(NoDate, NoDate, "", "") }

RecLists == {<<>>} \cup UNION {[1..n -> InputRecs] : n \in 1..MaxOps}

NoCand == [web |-> 0, bs |-> 0, browser |-> 0, maxdate |-> 0]

-----------------------------------------------------------------------------
(***************************************************************************)
(* The release-date resolver of CombinedFRBNYScraper.                      *)
(***************************************************************************)
MaxAttempts == 5

\* _is_reasonable_release_date
IsReasonableReleaseDate(n, t) ==
    \* date_obj = datetime.strptime(release_date_str, '%Y%m%d')
    LET dt == Date(n \div 10000, (n \div 100) % 100, n % 100) IN
    /\ Strptime(dt)
    /\ Ordinal(Date(t.y - 1, 1, 1)) <= Ordinal(dt)
    /\ Ordinal(dt) <= Ordinal(Date(t.y + 2, 12, 31))

\* one attempt of extract_release_date_from_web_simple: the date it returns,
\* 0 when the attempt fails
WebSimpleAttempt(page, t) ==
    IF page.kind = "error" \/ page.rng = NoRange THEN 0
    ELSE IF page.kind = "table"
         THEN IF /\ Strptime(page.rng.s) /\ Strptime(page.rng.e)
                 /\ page.rng.s.y >= t.y /\ page.rng.e.y >= t.y
              THEN Strftime(page.rng.e) ELSE 0
         ELSE IF Strptime(page.rng.e) /\ page.rng.e.y >= t.y
              THEN Strftime(page.rng.e) ELSE 0

\* extract_release_date_with_beautifulsoup: the date it returns, 0 for None
BeautifulSoupResult(page) ==
    IF page.kind = "table" /\ page.rng # NoRange /\ Strptime(page.rng.e)
    THEN Strftime(page.rng.e) ELSE 0

\* the first row of the panel whose first cell holds a range with a real end date
RECURSIVE FirstPeriodRow(_, _)
FirstPeriodRow(dom, i) ==
    IF i > Len(dom) THEN 0
    ELSE IF dom[i] # NoRange /\ Strptime(dom[i].e) THEN i
    ELSE FirstPeriodRow(dom, i + 1)

\* a current-date fallback that formats the day first ('%d%m%Y')
CurrentDateDayFirst(t) == t.d * 1000000 + t.m * 10000 + t.y

\* the current-date fallback: str(int(datetime.now().strftime('%Y%m%d')))
CurrentDate(t) == Strftime(t)

\* the maximum-operation-date fallback: max_date, NoDate for None
MaxOperationDate(ops) ==
    LET \* the dates of the records that strptime accepts
        S == { dt \in {ops[i].operation_date : i \in DOMAIN ops}
                      \cup {ops[i].settlement_date : i \in DOMAIN ops} :
                 dt # NoDate /\ Strptime(dt) }
    IN
    IF S = {} THEN NoDate
    ELSE CHOOSE dt \in S : \A o \in S : Ordinal(o) <= Ordinal(dt)

\* a stamping loop that ends after the first record
StampFirst(ops, n) ==
    [i \in DOMAIN ops |-> IF i = 1 THEN [ops[i] EXCEPT !.release_date = n] ELSE ops[i]]

\* a stamping loop that leaves the records as they were built
StampNothing(ops, n) == ops

\* for operation in operations: operation['release_date'] = int(date)
Stamp(ops, n) == [i \in DOMAIN ops |-> [ops[i] EXCEPT !.release_date = n]]


-----------------------------------------------------------------------------
\* the MOA builder before parse_tabular_data is called
MoaIdle ==
    /\ moa_pc = "idle" /\ moa_text = <<>> /\ moa_source = 0 /\ moa_i = 0
    /\ moa_ops = <<>> /\ moa_table = <<>> /\ moa_cur = <<>> /\ moa_block = [pass |-> "none", securities |-> <<>>, amounts |-> 0,
                    matched |-> <<>>, individual |-> <<>>, records |-> <<>>,
                    text |-> <<>>, type |-> <<>>, blocks |-> <<>>]

\* the sink before any save_to_csv call, with no file at output_path
CsvIdle ==
    /\ csv_file = [exists |-> FALSE, rows |-> <<>>]
    /\ csv_calls = 0
    /\ csv_last = [append |-> FALSE, n |-> 0, before |-> csv_file]

\* the normalizer before any record is passed to it
NormIdle == norm_rec = <<>> /\ norm_prev = <<>> /\ norm_ops = <<>>

\* no parser instance used for several documents, no DataFrame processed
ExtIdle ==
    /\ doc_parser = "none" /\ doc_data = <<>> /\ doc_own = <<>>
    /\ doc_ret = [kind |-> "none", recs |-> <<>>] /\ doc_calls = 0
    /\ csvd_columns = <<>> /\ csvd_rows = <<>> /\ csvd_mapping = <<>>
    /\ csvd_i = 0 /\ csvd_data = <<>>
    /\ csvd_parsed = <<>> /\ csvd_pc = "idle"
    /\ web_log = <<>>
    /\ run = [pc |-> "idle", pdf_path |-> FALSE, data |-> <<>>,
              source_type |-> "none", tried |-> <<>>,
              got |-> [csv |-> <<>>, browser |-> <<>>, pdf |-> <<>>],
              result |-> "none"]
    /\ pdf_table = [pc |-> "idle", parser |-> "none", table |-> <<>>, i |-> 0,
                    operations |-> <<>>, firsts |-> <<>>]

\* the resolver, the TOA builders and the runs before any entry point runs
DateIdle ==
    /\ pc = "idle" /\ path = "none" /\ operations = <<>> /\ driver = FALSE
    /\ attempt = 0 /\ release_date = 0 /\ source = "none" /\ range = NoRange
    /\ tried = <<>> /\ cand = NoCand /\ fetched = FALSE /\ pages_left = 0
    /\ outcome = "running" /\ handles = 0 /\ acquired = 0
    /\ moa_rows = 0 /\ toa_rows = 0 /\ toa_done = FALSE

Init ==
    /\ today \in {Date(2026, 11, 3), Date(2027, 1, 1)}
    /\ DateIdle /\ MoaIdle /\ CsvIdle /\ NormIdle /\ ExtIdle

\* the call of extract_release_date_from_web_simple that opens the cascade
EnterResolver(drv) ==
    /\ pc' = "web" /\ attempt' = 1 /\ driver' = drv
    /\ release_date' = 0 /\ range' = NoRange /\ source' = "none"
    /\ tried' = <<>> /\ cand' = NoCand

\* calculate_dataset_release_date(operations, driver) called on its own
StartCalculateDatasetReleaseDate ==
    /\ pc = "idle"
    /\ \E ops \in RecLists, drv \in BOOLEAN :
         /\ operations' = ops
         /\ EnterResolver(drv)
    /\ path' = "calc"
    /\ UNCHANGED <<today, fetched, pages_left, outcome, handles, acquired,
                   moa_rows, toa_rows, toa_done>>
    /\ UNCHANGED <<moaVars, csvVars, normVars, extVars>>

\* a retry loop that sleeps base_wait_time before every retry
ExtractReleaseDateFromWebSimpleFlatWait ==
    /\ pc = "web"
    /\ \E got \in {[r |-> WebSimpleAttempt(page, today),
                     rng |-> IF WebSimpleAttempt(page, today) # 0 THEN page.rng
                             ELSE NoRange,
                     ok |-> page.kind # "error"] : page \in Pages} :
         LET r == got.r IN
         /\ fetched' = (fetched \/ got.ok)
         /\ web_log' = (IF attempt = 1 THEN <<>> ELSE web_log)
                       \o <<[wait |-> IF attempt = 1 THEN 0 ELSE 30, result |-> r]>>
         /\ IF r # 0
            THEN /\ release_date' = r /\ range' = got.rng
                 /\ pc' = "web_ret" /\ attempt' = attempt
            ELSE IF attempt < MaxAttempts
            THEN /\ attempt' = attempt + 1
                 /\ UNCHANGED <<release_date, range, pc>>
            ELSE /\ release_date' = 0 /\ range' = NoRange
                 /\ pc' = "web_ret" /\ attempt' = attempt
    /\ tried' = IF attempt = 1 THEN Append(tried, "web") ELSE tried
    /\ UNCHANGED <<today, path, operations, driver, source, cand, pages_left,
                   outcome, handles, acquired, moa_rows, toa_rows, toa_done>>
    /\ UNCHANGED <<moaVars, csvVars, normVars>>
    /\ UNCHANGED <<doc_parser, doc_data, doc_own, doc_ret, doc_calls,
                   csvd_columns, csvd_rows, csvd_mapping, csvd_i, csvd_data,
                   csvd_parsed, csvd_pc, run, pdf_table>>

\* one pass of the retry loop of extract_release_date_from_web_simple: the
\* sleep before a retry (attempt counts from 1 here, from 0 in the code),
\* the request and the search of the page
ExtractReleaseDateFromWebSimple ==
    /\ pc = "web"
    /\ \E got \in {[r |-> WebSimpleAttempt(page, today),
                     rng |-> IF WebSimpleAttempt(page, today) # 0 THEN page.rng
                             ELSE NoRange,
                     ok |-> page.kind # "error"] : page \in Pages} :
         LET r == got.r
             \* wait_time = base_wait_time + (attempt - 1) * 15
             wait_time == IF attempt = 1 THEN 0 ELSE 30 + (attempt - 2) * 15
         IN
         /\ fetched' = (fetched \/ got.ok)
         /\ web_log' = (IF attempt = 1 THEN <<>> ELSE web_log)
                       \o <<[wait |-> wait_time, result |-> r]>>
         /\ IF r # 0
            THEN /\ release_date' = r /\ range' = got.rng
                 /\ pc' = "web_ret" /\ attempt' = attempt
            ELSE IF attempt < MaxAttempts
            THEN /\ attempt' = attempt + 1
                 /\ UNCHANGED <<release_date, range, pc>>
            ELSE /\ release_date' = 0 /\ range' = NoRange
                 /\ pc' = "web_ret" /\ attempt' = attempt
    /\ tried' = IF attempt = 1 THEN Append(tried, "web") ELSE tried
    /\ UNCHANGED <<today, path, operations, driver, source, cand, pages_left,
                   outcome, handles, acquired, moa_rows, toa_rows, toa_done>>
    /\ UNCHANGED <<moaVars, csvVars, normVars>>
    /\ UNCHANGED <<doc_parser, doc_data, doc_own, doc_ret, doc_calls,
                   csvd_columns, csvd_rows, csvd_mapping, csvd_i, csvd_data,
                   csvd_parsed, csvd_pc, run, pdf_table>>

\* calculate_dataset_release_date: the test on the direct fetch's result
CalcAfterWebSimple ==
    /\ pc = "web_ret" /\ path \in {"calc", "pdf", "browser"}
    /\ IF release_date # 0 /\ IsReasonableReleaseDate(release_date, today)
       THEN /\ pc' = "resolved" /\ source' = "web"
            /\ cand' = [cand EXCEPT !.web = release_date]
            /\ UNCHANGED <<release_date, range>>
       ELSE /\ pc' = "bs" /\ release_date' = 0 /\ range' = NoRange
            /\ UNCHANGED <<source, cand>>
    /\ UNCHANGED <<today, path, operations, driver, attempt, tried, fetched,
                   pages_left, outcome, handles, acquired, moa_rows, toa_rows,
                   toa_done>>
    /\ UNCHANGED <<moaVars, csvVars, normVars, extVars>>

\* extract_release_date_with_beautifulsoup: one request, no retry
ExtractReleaseDateWithBeautifulSoup ==
    /\ pc = "bs"
    /\ \E got \in {[r |-> BeautifulSoupResult(page),
                     rng |-> IF BeautifulSoupResult(page) # 0 THEN page.rng
                             ELSE NoRange,
                     ok |-> page.kind # "error"] : page \in Pages} :
         LET r == got.r IN
         /\ fetched' = (fetched \/ got.ok)
         /\ release_date' = r
         /\ range' = IF r # 0 THEN got.rng ELSE NoRange
    /\ tried' = Append(tried, "bs")
    /\ pc' = "bs_ret"
    /\ UNCHANGED <<today, path, operations, driver, attempt, source, cand,
                   pages_left, outcome, handles, acquired, moa_rows, toa_rows,
                   toa_done>>
    /\ UNCHANGED <<moaVars, csvVars, normVars, extVars>>

\* calculate_dataset_release_date: the test on the markup parse's result
CalcAfterBeautifulSoup ==
    /\ pc = "bs_ret" /\ path \in {"calc", "pdf", "browser"}
    /\ IF release_date # 0 /\ IsReasonableReleaseDate(release_date, today)
       THEN /\ pc' = "resolved" /\ source' = "bs"
            /\ cand' = [cand EXCEPT !.bs = release_date]
            /\ UNCHANGED <<release_date, range>>
       ELSE /\ pc' = IF driver THEN "browser" ELSE "maxdate"
            /\ release_date' = 0 /\ range' = NoRange
            /\ UNCHANGED <<source, cand>>
    /\ UNCHANGED <<today, path, operations, driver, attempt, tried, fetched,
                   pages_left, outcome, handles, acquired, moa_rows, toa_rows,
                   toa_done>>
    /\ UNCHANGED <<moaVars, csvVars, normVars, extVars>>

\* calculate_dataset_release_date: "Fallback 1", the read through the driver
CalcBrowserFallback ==
    /\ pc = "browser"
    /\ \E r \in {LET \* extract_operation_period_end_date(driver): the date
                    \* it returns and the range it was read from; a lookup
                    \* failure is a panel without rows
                    row == FirstPeriodRow(dom, 1)
                IN  IF row = 0 THEN [date |-> CurrentDate(today), rng |-> NoRange]
                    ELSE [date |-> Strftime(dom[row].e), rng |-> dom[row]]
                : dom \in Doms} :
         /\ tried' = IF r.rng = NoRange THEN tried \o <<"browser", "today">>
                     ELSE Append(tried, "browser")
         /\ IF IsReasonableReleaseDate(r.date, today)
            THEN /\ pc' = "resolved"
                 /\ release_date' = r.date /\ range' = r.rng
                 /\ source' = IF r.rng = NoRange THEN "today" ELSE "browser"
                 /\ cand' = IF r.rng = NoRange THEN cand
                            ELSE [cand EXCEPT !.browser = r.date]
            ELSE /\ pc' = "maxdate"
                 /\ UNCHANGED <<release_date, range, source, cand>>
    /\ UNCHANGED <<today, path, operations, driver, attempt, fetched,
                   pages_left, outcome, handles, acquired, moa_rows, toa_rows,
                   toa_done>>
    /\ UNCHANGED <<moaVars, csvVars, normVars, extVars>>

\* calculate_dataset_release_date: "Fallback 2" and the final fallback
CalcMaxDateFallback ==
    /\ pc = "maxdate"
    /\ LET m == MaxOperationDate(operations) IN
       IF m # NoDate
       THEN /\ release_date' = Strftime(m) /\ source' = "maxdate"
            /\ tried' = Append(tried, "maxdate")
            /\ cand' = [cand EXCEPT !.maxdate = Strftime(m)]
       ELSE /\ release_date' = CurrentDate(today) /\ source' = "today"
            /\ tried' = tried \o <<"maxdate", "today">>
            /\ cand' = cand
    /\ range' = NoRange
    /\ pc' = "resolved"
    /\ UNCHANGED <<today, path, operations, driver, attempt, fetched,
                   pages_left, outcome, handles, acquired, moa_rows, toa_rows,
                   toa_done>>
    /\ UNCHANGED <<moaVars, csvVars, normVars, extVars>>

\* calculate_dataset_release_date returns to an outside caller
CalcReturn ==
    /\ pc = "resolved" /\ path = "calc"
    /\ pc' = "done" /\ outcome' = "returned"
    /\ UNCHANGED <<today, path, operations, driver, attempt, release_date,
                   source, range, tried, cand, fetched, pages_left, handles,
                   acquired, moa_rows, toa_rows, toa_done>>
    /\ UNCHANGED <<moaVars, csvVars, normVars, extVars>>

-----------------------------------------------------------------------------
(***************************************************************************)
(* The TOA builders of CombinedFRBNYScraper: the CSV path, the browser     *)
(* path and the PDF path.                                                  *)
(***************************************************************************)

\* process_csv_data: a row is kept when it has a date and a type
ProcessCsvData(rows) ==
    SelectSeq(rows, LAMBDA r : r.operation_date # NoDate /\ r.operation_type # "")

\* fetch_csv_direct up to the call of the direct fetch
StartFetchCsvDirect ==
    /\ pc = "idle"
    /\ path' = "csv"
    /\ \E ok \in BOOLEAN, rows \in RecLists :
         /\ fetched' = ok
         /\ IF ok /\ ProcessCsvData(rows) # <<>>
            THEN /\ operations' = ProcessCsvData(rows)
                 /\ EnterResolver(FALSE)
                 /\ outcome' = outcome
            ELSE /\ pc' = "done" /\ outcome' = "none"
                 /\ UNCHANGED <<operations, driver, attempt, release_date,
                                source, range, tried, cand>>
    /\ UNCHANGED <<today, pages_left, handles, acquired, moa_rows, toa_rows,
                   toa_done>>
    /\ UNCHANGED <<moaVars, csvVars, normVars, extVars>>

\* fetch_csv_direct: "if not release_date:" after the direct fetch
CsvAfterWebSimple ==
    /\ pc = "web_ret" /\ path = "csv"
    /\ pc' = IF release_date = 0 THEN "bs" ELSE "bs_ret"
    /\ UNCHANGED <<today, path, operations, driver, attempt, release_date,
                   source, range, tried, cand, fetched, pages_left, outcome,
                   handles, acquired, moa_rows, toa_rows, toa_done>>
    /\ UNCHANGED <<moaVars, csvVars, normVars, extVars>>

\* fetch_csv_direct: the stamping of the extracted date or of today's
CsvApplyReleaseDate ==
    /\ pc = "bs_ret" /\ path = "csv"
    /\ IF release_date # 0 /\ IsReasonableReleaseDate(release_date, today)
       THEN /\ operations' = Stamp(operations, release_date)
            /\ source' = tried[Len(tried)]
            /\ cand' = [cand EXCEPT ![tried[Len(tried)]] = release_date]
            /\ UNCHANGED <<release_date, range, tried>>
       ELSE /\ operations' = Stamp(operations, CurrentDate(today))
            /\ release_date' = CurrentDate(today) /\ range' = NoRange
            /\ source' = "today" /\ tried' = Append(tried, "today")
            /\ cand' = cand
    /\ pc' = "done" /\ outcome' = "returned"
    /\ UNCHANGED <<today, path, driver, attempt, fetched, pages_left, handles,
                   acquired, moa_rows, toa_rows, toa_done>>
    /\ UNCHANGED <<moaVars, csvVars, normVars, extVars>>

\* apply_release_date_to_operations: the stamping after the resolver returned
ApplyReleaseDateToOperations ==
    /\ pc = "resolved" /\ path \in {"pdf", "browser"}
    /\ operations' = Stamp(operations, release_date)
    /\ pc' = IF path = "pdf" THEN "done" ELSE "quit"
    /\ outcome' = "returned"
    /\ UNCHANGED <<today, path, driver, attempt, release_date, source, range,
                   tried, cand, fetched, pages_left, handles, acquired,
                   moa_rows, toa_rows, toa_done>>
    /\ UNCHANGED <<moaVars, csvVars, normVars, extVars>>

\* A row of a PDF table: empty cells only, a header row, a row too short
\* for the column parse, or a data row.  rec holds what the columns of a
\* data row carry once parsed (operation_date is blank when cell 0 holds
\* no date).
BlankRec == Rec(NoDate, NoDate, "", "")
EmptyRow == [kind |-> "empty", rec |-> BlankRec]
PdfRows ==
    {EmptyRow, [kind |-> "header", rec |-> BlankRec],
     [kind |-> "short", rec |-> Rec(Date(2026, 6, 20), NoDate, "Purchase", "")]}
      \cup {[kind |-> "data", rec |-> r] : r \in InputRecs \ {BlankRec}}

\* a page of a PDF: a table, text only, or a page pdfplumber fails on.  A
\* line of the text of a page is blank, or text whose leading date (if any)
\* is operation_date, whose second date is settlement_date, and which names
\* an operation type or a security or neither.
PdfPages ==
    LET TextLines ==
            {[kind |-> "blank", rec |-> BlankRec]}
              \cup {[kind |-> "text", rec |-> r] :
                      r \in {Rec(Date(2026, 6, 20), NoDate, "Purchase", ""),
                             Rec(Date(2026, 7, 1), NoDate, "", ""),
                             Rec(Date(2026, 13, 45), NoDate, "", ""),
                             Rec(Date(2026, 13, 45), Date(2026, 6, 23), "", "Bills"),
                             Rec(NoDate, NoDate, "", "Bills")}}
    IN  {[kind |-> "error", rows |-> <<>>]}
          \cup {[kind |-> "table", rows |-> t] :
                  t \in UNION {[1..n -> PdfRows] : n \in 1..MaxRows}}
          \cup {[kind |-> "text", rows |-> t] :
                  t \in {<<>>} \cup UNION {[1..n -> TextLines] : n \in 1..MaxRows}}

\* is_empty_row
IsEmptyRow(row) == row.kind = "empty"

\* find_pdf_data_start: the first row that is no header and holds a date,
\* the first row of the table when there is none
RECURSIVE FindPdfDataStart(_, _)
FindPdfDataStart(table, i) ==
    IF i > Len(table) THEN 1
    ELSE IF /\ table[i].kind # "header"
            /\ \/ table[i].rec.operation_date # NoDate
               \/ table[i].rec.settlement_date # NoDate
    THEN i
    ELSE FindPdfDataStart(table, i + 1)

\* parse_pdf_columns: fields are read from row1 when it has three cells or more
ParsePdfColumns(row1) ==
    IF row1.kind = "data" THEN row1.rec ELSE BlankRec

\* is_valid_pdf_operation
IsValidPdfOperation(op) ==
    op.operation_date # NoDate /\ (op.operation_type # "" \/ op.security # "")

\* parse_pdf_table: the loop over row pairs from index i on
RECURSIVE ParsePdfTable(_, _, _)
ParsePdfTable(table, i, acc) ==
    IF i > Len(table) THEN acc
    ELSE LET row1 == table[i]
             row2 == IF i + 1 <= Len(table) THEN table[i + 1] ELSE EmptyRow
             op == ParsePdfColumns(row1)
         IN  IF IsEmptyRow(row1) /\ IsEmptyRow(row2)
             THEN ParsePdfTable(table, i + 1, acc)
             ELSE IF IsValidPdfOperation(op)
             THEN ParsePdfTable(table, i + 2, Append(acc, op))
             ELSE ParsePdfTable(table, i + 1, acc)

\* parse_pdf_text_fallback: one record per line that starts with a date,
\* holding the date alone
RECURSIVE ParsePdfTextFallback(_, _, _)
ParsePdfTextFallback(lines, i, acc) ==
    IF i > Len(lines) THEN acc
    ELSE IF lines[i].kind = "text" /\ lines[i].rec.operation_date # NoDate
    THEN ParsePdfTextFallback(lines, i + 1,
             Append(acc, Rec(lines[i].rec.operation_date, NoDate, "", "")))
    ELSE ParsePdfTextFallback(lines, i + 1, acc)

\* the records parse_pdf_fallback takes from one page
PdfPageOperations(pg) ==
    IF pg.kind = "table"
    THEN ParsePdfTable(pg.rows, FindPdfDataStart(pg.rows, 1), <<>>)
    ELSE ParsePdfTextFallback(pg.rows, 1, <<>>)

\* parse_pdf_fallback / parse_pdf up to the page loop
StartParsePdfFallback ==
    /\ pc = "idle"
    /\ path' = "pdf"
    /\ \E exists \in BOOLEAN, n \in 0..MaxPages :
         IF exists
         THEN pc' = "pdf_page" /\ pages_left' = n /\ outcome' = outcome
         ELSE pc' = "done" /\ pages_left' = 0 /\ outcome' = "none"
    /\ UNCHANGED <<today, operations, driver, attempt, release_date, source,
                   range, tried, cand, fetched, handles, acquired, moa_rows,
                   toa_rows, toa_done>>
    /\ UNCHANGED <<moaVars, csvVars, normVars, extVars>>

\* parse_pdf_fallback: one pass of the page loop
ParsePdfFallbackPage ==
    /\ pc = "pdf_page" /\ path = "pdf" /\ pages_left > 0
    /\ \E pg \in PdfPages :
         IF pg.kind = "error"
         THEN /\ pc' = "done" /\ outcome' = "none"
              /\ operations' = <<>> /\ pages_left' = 0
         ELSE /\ Len(operations) + Len(PdfPageOperations(pg)) <= MaxOps
              /\ operations' = operations \o PdfPageOperations(pg)
              /\ pages_left' = pages_left - 1
              /\ UNCHANGED <<pc, outcome>>
    /\ UNCHANGED <<today, path, driver, attempt, release_date, source, range,
                   tried, cand, fetched, handles, acquired, moa_rows, toa_rows,
                   toa_done>>
    /\ UNCHANGED <<moaVars, csvVars, normVars, extVars>>

\* parse_pdf_fallback: "if self.data:" after the page loop
ParsePdfFallbackApply ==
    /\ pc = "pdf_page" /\ path = "pdf" /\ pages_left = 0
    /\ IF operations # <<>>
       THEN EnterResolver(FALSE) /\ outcome' = outcome
       ELSE /\ pc' = "done" /\ outcome' = "none"
            /\ UNCHANGED <<driver, attempt, release_date, source, range,
                           tried, cand>>
    /\ UNCHANGED <<today, path, operations, fetched, pages_left, handles,
                   acquired, moa_rows, toa_rows, toa_done>>
    /\ UNCHANGED <<moaVars, csvVars, normVars, extVars>>

\* the first panel of the ui-tabs-panel fallback whose text holds a range
RECURSIVE FirstPanelWithRange(_, _)
FirstPanelWithRange(panels, i) ==
    IF i > Len(panels) THEN 0
    ELSE IF panels[i] # NoRange THEN i
    ELSE FirstPanelWithRange(panels, i + 1)

\* scrape_with_browser: setup_driver.  Chrome may fail to start, or start
\* and then fail in execute_script / the timeout calls; both return None.
StartScrapeWithBrowser ==
    /\ pc = "idle"
    /\ path' = "browser"
    /\ \E setup \in {"ok", "no_chrome", "configure_failed"} :
         /\ handles' = IF setup = "no_chrome" THEN handles ELSE handles + 1
         /\ acquired' = IF setup = "no_chrome" THEN acquired ELSE acquired + 1
         /\ IF setup = "ok"
            THEN pc' = "monthly" /\ outcome' = outcome
            ELSE pc' = "done" /\ outcome' = "none"
    /\ UNCHANGED <<today, operations, driver, attempt, release_date, source,
                   range, tried, cand, fetched, pages_left, moa_rows, toa_rows,
                   toa_done>>
    /\ UNCHANGED <<moaVars, csvVars, normVars, extVars>>

\* scrape_with_browser: driver.get and the read of the Operation Period
\* Details tab
ScrapeWithBrowserPeriod ==
    /\ pc = "monthly"
    /\ \E loaded \in BOOLEAN, monthly \in DomCells, panels \in Doms :
         IF loaded
         THEN LET \* extracted_release_date and the range it is read from.
                  \* The monthly-details text is tried first; strptime
                  \* failing there or in a panel ends that read with
                  \* nothing extracted.
                  first == FirstPanelWithRange(panels, 1)
                  x == IF monthly # NoRange /\ Strptime(monthly.e)
                       THEN [date |-> Strftime(monthly.e), rng |-> monthly,
                             from |-> "monthly"]
                       ELSE IF first # 0 /\ Strptime(panels[first].e)
                       THEN [date |-> Strftime(panels[first].e),
                             rng |-> panels[first], from |-> "panel"]
                       ELSE [date |-> 0, rng |-> NoRange, from |-> "none"]
              IN
              /\ release_date' = x.date /\ range' = x.rng /\ source' = x.from
              /\ pc' = "table" /\ outcome' = outcome
         ELSE /\ pc' = "quit" /\ outcome' = "none"
              /\ UNCHANGED <<release_date, range, source>>
    /\ UNCHANGED <<today, path, operations, driver, attempt, tried, cand,
                   fetched, pages_left, handles, acquired, moa_rows, toa_rows,
                   toa_done>>
    /\ UNCHANGED <<moaVars, csvVars, normVars, extVars>>

\* scrape_with_browser: the read of the Current Schedule table and the
\* stamping of its rows
ScrapeWithBrowserTable ==
    /\ pc = "table"
    /\ \E found \in BOOLEAN, rows \in RecLists :
         IF ~found \/ rows = <<>>
         THEN /\ pc' = "quit" /\ outcome' = "none"
              /\ UNCHANGED <<operations, driver, attempt, release_date,
                             source, range, tried, cand>>
         ELSE IF release_date # 0
         THEN /\ operations' = Stamp(rows, release_date)
              /\ pc' = "quit" /\ outcome' = "returned"
              /\ UNCHANGED <<driver, attempt, release_date, source, range,
                             tried, cand>>
         ELSE /\ operations' = rows
              /\ EnterResolver(TRUE)
              /\ outcome' = outcome
    /\ UNCHANGED <<today, path, fetched, pages_left, handles, acquired,
                   moa_rows, toa_rows, toa_done>>
    /\ UNCHANGED <<moaVars, csvVars, normVars, extVars>>

\* scrape_with_browser: "finally: if driver: driver.quit()"
ScrapeWithBrowserFinally ==
    /\ pc = "quit" /\ path = "browser"
    /\ handles' = handles - 1
    /\ pc' = "done"
    /\ UNCHANGED <<today, path, operations, driver, attempt, release_date,
                   source, range, tried, cand, fetched, pages_left, outcome,
                   acquired, moa_rows, toa_rows, toa_done>>
    /\ UNCHANGED <<moaVars, csvVars, normVars, extVars>>

-----------------------------------------------------------------------------
(***************************************************************************)
(* EnhancedFRBNYParser (main.py): every record gets its own release date.  *)
(***************************************************************************)

\* the value that stands for the KeyError of operation['settlement_date']
KeyError == -1

\* EnhancedFRBNYParser.calculate_release_date; has_sd tells whether the dict
\* has the key 'settlement_date'
CalculateReleaseDate(op, has_sd, t) ==
    IF op.operation_date # NoDate /\ Strptime(op.operation_date)
    THEN Strftime(op.operation_date)
    ELSE IF ~has_sd THEN KeyError
    ELSE IF op.settlement_date # NoDate /\ Strptime(op.settlement_date)
    THEN Strftime(op.settlement_date)
    ELSE Strftime(t)

\* EnhancedFRBNYParser.is_valid_operation
IsValidOperation(op) ==
    op.operation_date # NoDate /\ (op.operation_type # "" \/ op.security # "")

\* EnhancedFRBNYParser.parse_operation: the columns of row1, then the date
ParseOperation(row1, t) ==
    LET op == IF row1.kind = "data" THEN row1.rec ELSE BlankRec IN
    [op EXCEPT !.release_date = CalculateReleaseDate(op, TRUE, t)]

\* EnhancedFRBNYParser.parse_table: the loop over row pairs from index i on
RECURSIVE ParseTable(_, _, _, _)
ParseTable(table, i, acc, t) ==
    IF i > Len(table) THEN acc
    ELSE LET row1 == table[i]
             row2 == IF i + 1 <= Len(table) THEN table[i + 1] ELSE EmptyRow
             op == ParseOperation(row1, t)
         IN  IF IsEmptyRow(row1) /\ IsEmptyRow(row2)
             THEN ParseTable(table, i + 1, acc, t)
             ELSE IF IsValidOperation(op)
             THEN ParseTable(table, i + 2, Append(acc, op), t)
             ELSE ParseTable(table, i + 1, acc, t)

\* EnhancedFRBNYParser.extract_line_data: a field is filled once
ExtractLineData(line, op) ==
    [op EXCEPT
       !.settlement_date = IF @ = NoDate THEN line.rec.settlement_date ELSE @,
       !.operation_type = IF @ = "" THEN line.rec.operation_type ELSE @,
       !.security = IF @ = "" THEN line.rec.security ELSE @]

\* EnhancedFRBNYParser.complete_operation
CompleteOperation(op, t) ==
    [op EXCEPT !.release_date =
        CalculateReleaseDate(op, op.settlement_date # NoDate, t)]

\* EnhancedFRBNYParser.parse_text_fallback: cur is current_operation
\* (BlankRec: the empty dict)
RECURSIVE ParseTextFallback(_, _, _, _, _)
ParseTextFallback(lines, i, cur, acc, t) ==
    IF i > Len(lines)
    THEN IF cur # BlankRec THEN Append(acc, CompleteOperation(cur, t)) ELSE acc
    ELSE IF lines[i].kind = "blank"
    THEN ParseTextFallback(lines, i + 1, cur, acc, t)
    ELSE IF lines[i].rec.operation_date # NoDate
    THEN ParseTextFallback(lines, i + 1,
             ExtractLineData(lines[i],
                 Rec(lines[i].rec.operation_date, NoDate, "", "")),
             IF cur # BlankRec THEN Append(acc, CompleteOperation(cur, t))
             ELSE acc, t)
    ELSE ParseTextFallback(lines, i + 1,
             IF cur # BlankRec THEN ExtractLineData(lines[i], cur) ELSE cur,
             acc, t)

\* the records parse_pdf_content takes from one page
EnhancedPageOperations(pg, t) ==
    IF pg.kind = "table"
    THEN ParseTable(pg.rows, FindPdfDataStart(pg.rows, 1), <<>>, t)
    ELSE ParseTextFallback(pg.rows, 1, BlankRec, <<>>, t)

\* parse_pdf_content up to the page loop: self.data = []
StartParsePdfContent ==
    /\ pc = "idle"
    /\ path' = "enhanced"
    /\ pc' = "pdf_page"
    /\ pages_left' \in 0..MaxPages
    /\ UNCHANGED <<today, operations, driver, attempt, release_date, source,
                   range, tried, cand, fetched, outcome, handles, acquired,
                   moa_rows, toa_rows, toa_done>>
    /\ UNCHANGED <<moaVars, csvVars, normVars, extVars>>

\* parse_pdf_content: one pass of the page loop; any exception ends the
\* parse with the empty list
ParsePdfContentPage ==
    /\ pc = "pdf_page" /\ path = "enhanced" /\ pages_left > 0
    /\ \E pg \in PdfPages :
         LET new == EnhancedPageOperations(pg, today) IN
         IF pg.kind = "error"
              \/ \E k \in DOMAIN new : new[k].release_date = KeyError
         THEN /\ pc' = "done" /\ outcome' = "none"
              /\ operations' = <<>> /\ pages_left' = 0
         ELSE /\ Len(operations) + Len(new) <= MaxOps
              /\ operations' = operations \o new
              /\ pages_left' = pages_left - 1
              /\ UNCHANGED <<pc, outcome>>
    /\ UNCHANGED <<today, path, driver, attempt, release_date, source, range,
                   tried, cand, fetched, handles, acquired, moa_rows, toa_rows,
                   toa_done>>
    /\ UNCHANGED <<moaVars, csvVars, normVars, extVars>>

\* parse_pdf_content: "return self.data" after the page loop
ParsePdfContentReturn ==
    /\ pc = "pdf_page" /\ path = "enhanced" /\ pages_left = 0
    /\ pc' = "done"
    /\ outcome' = IF operations # <<>> THEN "returned" ELSE "none"
    /\ UNCHANGED <<today, path, operations, driver, attempt, release_date,
                   source, range, tried, cand, fetched, pages_left, handles,
                   acquired, moa_rows, toa_rows, toa_done>>
    /\ UNCHANGED <<moaVars, csvVars, normVars, extVars>>

-----------------------------------------------------------------------------
(***************************************************************************)
(* The other runs that hold a browser handle: run_full_process (fedao.py)  *)
(* and render_page (web_renderer/main.py).                                 *)
(***************************************************************************)

\* run_full_process: setup_driver inside the try; it re-raises when Chrome
\* does not start, and cleanup finds self.driver unset
StartRunFullProcess ==
    /\ pc = "idle"
    /\ path' = "full"
    /\ \E started \in BOOLEAN :
         IF started
         THEN /\ handles' = handles + 1 /\ acquired' = acquired + 1
              /\ pc' = "full_urls" /\ outcome' = outcome
         ELSE /\ pc' = "done" /\ outcome' = "raised"
              /\ UNCHANGED <<handles, acquired>>
    /\ UNCHANGED <<today, operations, driver, attempt, release_date, source,
                   range, tried, cand, fetched, pages_left, moa_rows, toa_rows,
                   toa_done>>
    /\ UNCHANGED <<moaVars, csvVars, normVars, extVars>>

\* run_full_process: steps 2 and 3, each with its early return
RunFullProcessCollect ==
    /\ pc = "full_urls"
    /\ \E urls \in BOOLEAN, files \in BOOLEAN :
         IF urls /\ files
         THEN pc' = "full_process" /\ outcome' = outcome
         ELSE pc' = "quit" /\ outcome' = "none"
    /\ UNCHANGED <<today, path, operations, driver, attempt, release_date,
                   source, range, tried, cand, fetched, pages_left, handles,
                   acquired, moa_rows, toa_rows, toa_done>>
    /\ UNCHANGED <<moaVars, csvVars, normVars, extVars>>

\* run_full_process: steps 4 to 6.  A PDF whose parser raises is skipped by
\* process_pdfs_with_dual_parsers; an error while saving is re-raised.
RunFullProcessOutputs ==
    /\ pc = "full_process"
    /\ \E m \in 0..MaxOps, t \in 0..MaxOps, saved \in BOOLEAN :
         /\ moa_rows' = m /\ toa_rows' = t
         /\ outcome' = IF m = 0 /\ t = 0 THEN "none"
                       ELSE IF saved THEN "returned" ELSE "raised"
    /\ toa_done' = TRUE
    /\ pc' = "quit"
    /\ UNCHANGED <<today, path, operations, driver, attempt, release_date,
                   source, range, tried, cand, fetched, pages_left, handles,
                   acquired>>
    /\ UNCHANGED <<moaVars, csvVars, normVars, extVars>>

\* run_full_process: "finally: self.cleanup()"
Cleanup ==
    /\ pc = "quit" /\ path = "full"
    /\ handles' = handles - 1
    /\ pc' = "done"
    /\ UNCHANGED <<today, path, operations, driver, attempt, release_date,
                   source, range, tried, cand, fetched, pages_left, outcome,
                   acquired, moa_rows, toa_rows, toa_done>>
    /\ UNCHANGED <<moaVars, csvVars, normVars, extVars>>

\* render_page up to the inner try: a request without url is answered 400,
\* create_driver raising is answered 500
StartRenderPage ==
    /\ pc = "idle"
    /\ path' = "render"
    /\ \E url \in BOOLEAN, started \in BOOLEAN :
         IF url /\ started
         THEN /\ handles' = handles + 1 /\ acquired' = acquired + 1
              /\ pc' = "render" /\ outcome' = outcome
         ELSE /\ pc' = "done" /\ outcome' = "none"
              /\ UNCHANGED <<handles, acquired>>
    /\ UNCHANGED <<today, operations, driver, attempt, release_date, source,
                   range, tried, cand, fetched, pages_left, moa_rows, toa_rows,
                   toa_done>>
    /\ UNCHANGED <<moaVars, csvVars, normVars, extVars>>

\* render_page: driver.get and page_source, an exception is answered 500
RenderPageBody ==
    /\ pc = "render"
    /\ \E loaded \in BOOLEAN :
         outcome' = IF loaded THEN "returned" ELSE "none"
    /\ pc' = "quit"
    /\ UNCHANGED <<today, path, operations, driver, attempt, release_date,
                   source, range, tried, cand, fetched, pages_left, handles,
                   acquired, moa_rows, toa_rows, toa_done>>
    /\ UNCHANGED <<moaVars, csvVars, normVars, extVars>>

\* render_page: "finally: driver.quit()"
RenderPageFinally ==
    /\ pc = "quit" /\ path = "render"
    /\ handles' = handles - 1
    /\ pc' = "done"
    /\ UNCHANGED <<today, path, operations, driver, attempt, release_date,
                   source, range, tried, cand, fetched, pages_left, outcome,
                   acquired, moa_rows, toa_rows, toa_done>>
    /\ UNCHANGED <<moaVars, csvVars, normVars, extVars>>

-----------------------------------------------------------------------------
(***************************************************************************)
(* The cloud entry point scrape_fedao_sources_ai (main.py).                *)
(***************************************************************************)

StartScrapeFedaoSourcesAi ==
    /\ pc = "idle"
    /\ path' = "cloud"
    /\ pc' = "moa_source"
    /\ UNCHANGED <<today, operations, driver, attempt, release_date, source,
                   range, tried, cand, fetched, pages_left, outcome, handles,
                   acquired, moa_rows, toa_rows, toa_done>>
    /\ UNCHANGED <<moaVars, csvVars, normVars, extVars>>

\* the first source: scrape_treasury_operations_enhanced_ai returns [] when
\* the renderer cannot be reached or answers without 'html'; rows are
\* uploaded, and upload_csv_to_gcs re-raises
ScrapeTreasuryOperations ==
    /\ pc = "moa_source"
    /\ \E n \in 0..MaxOps, uploaded \in BOOLEAN :
         /\ moa_rows' = n
         /\ IF n > 0 /\ ~uploaded
            THEN pc' = "done" /\ outcome' = "raised"
            ELSE pc' = "toa_source" /\ outcome' = outcome
    /\ UNCHANGED <<today, path, operations, driver, attempt, release_date,
                   source, range, tried, cand, fetched, pages_left, handles,
                   acquired, toa_rows, toa_done>>
    /\ UNCHANGED <<moaVars, csvVars, normVars, extVars>>

\* the second source: scrape_ambs_operations_enhanced_ai, same shape
ScrapeAmbsOperations ==
    /\ pc = "toa_source"
    /\ toa_done' = TRUE
    /\ \E n \in 0..MaxOps, uploaded \in BOOLEAN :
         /\ toa_rows' = n
         /\ IF n > 0 /\ ~uploaded
            THEN pc' = "done" /\ outcome' = "raised"
            ELSE pc' = "summary" /\ outcome' = outcome
    /\ UNCHANGED <<today, path, operations, driver, attempt, release_date,
                   source, range, tried, cand, fetched, pages_left, handles,
                   acquired, moa_rows>>
    /\ UNCHANGED <<moaVars, csvVars, normVars, extVars>>

\* the final summary: the logged success rate divides by total_operations,
\* and the handler re-raises what it catches
FinalSummary ==
    /\ pc = "summary"
    /\ LET m == moa_rows
           t == toa_rows
           total_operations ==
               IF m > 0 /\ t > 0 THEN m + t ELSE IF m > 0 THEN m ELSE IF t > 0 THEN t ELSE 0
       IN  outcome' = IF total_operations = 0 THEN "raised" ELSE "returned"
    /\ pc' = "done"
    /\ UNCHANGED <<today, path, operations, driver, attempt, release_date,
                   source, range, tried, cand, fetched, pages_left, handles,
                   acquired, moa_rows, toa_rows, toa_done>>
    /\ UNCHANGED <<moaVars, csvVars, normVars, extVars>>

Next ==
    \/ StartCalculateDatasetReleaseDate
    \/ ExtractReleaseDateFromWebSimple
    \/ CalcAfterWebSimple
    \/ ExtractReleaseDateWithBeautifulSoup
    \/ CalcAfterBeautifulSoup
    \/ CalcBrowserFallback
    \/ CalcMaxDateFallback
    \/ CalcReturn
    \/ StartFetchCsvDirect
    \/ CsvAfterWebSimple
    \/ CsvApplyReleaseDate
    \/ ApplyReleaseDateToOperations
    \/ StartParsePdfFallback
    \/ ParsePdfFallbackPage
    \/ ParsePdfFallbackApply
    \/ StartScrapeWithBrowser
    \/ ScrapeWithBrowserPeriod
    \/ ScrapeWithBrowserTable
    \/ ScrapeWithBrowserFinally
    \/ StartParsePdfContent
    \/ ParsePdfContentPage
    \/ ParsePdfContentReturn
    \/ StartRunFullProcess
    \/ RunFullProcessCollect
    \/ RunFullProcessOutputs
    \/ Cleanup
    \/ StartRenderPage
    \/ RenderPageBody
    \/ RenderPageFinally
    \/ StartScrapeFedaoSourcesAi
    \/ ScrapeTreasuryOperations
    \/ ScrapeAmbsOperations
    \/ FinalSummary

Spec == Init /\ [][Next]_vars

-----------------------------------------------------------------------------
(***************************************************************************)
(* Properties of the release-date resolver, the TOA builders and the runs. *)
(***************************************************************************)

\* C1: a release date that is returned or stamped from a page date range
\* comes from a range with start <= end, a span of 1..365 days and both
\* years >= the current year.
C1_ReleaseDateValidity ==
    (pc = "done" /\ outcome = "returned"
       /\ source \in {"web", "bs", "browser", "monthly", "panel"})
    => /\ range # NoRange
       /\ Strptime(range.s) /\ Strptime(range.e)
       /\ Ordinal(range.s) <= Ordinal(range.e)
       /\ Ordinal(range.e) - Ordinal(range.s) \in 1..365
       /\ range.s.y >= today.y /\ range.e.y >= today.y

\* C2: every record a TOA builder path returns carries a non-empty 8-digit
\* release_date, whichever strategies succeeded or failed.
C2_ReleaseDateNeverBlank ==
    (pc = "done" /\ outcome = "returned" /\ path \in {"csv", "browser", "pdf", "enhanced"})
    => /\ operations # <<>>
       /\ \A i \in DOMAIN operations :
            operations[i].release_date \in 10000000..99999999

\* C2 witness: the PDF path returned records after every strategy before
\* the current date failed
C2_Witness ==
    /\ pc = "done" /\ outcome = "returned" /\ path = "pdf"
    /\ tried = <<"web", "bs", "maxdate", "today">>
    /\ operations # <<>>
    /\ operations[1].operation_type = ""

\* C3: calculate_dataset_release_date with no records, no browser handle
\* and every fetch failing returns today's date as YYYYMMDD.
C3_FallbackGuarantee ==
    (pc = "done" /\ path = "calc" /\ operations = <<>> /\ ~driver /\ ~fetched)
    => /\ outcome = "returned"
       /\ release_date = today.y * 10000 + today.m * 100 + today.d

\* C3 witness: such a call ran through the whole cascade
C3_Witness ==
    /\ pc = "done" /\ path = "calc" /\ operations = <<>> /\ ~driver /\ ~fetched
    /\ attempt = MaxAttempts
    /\ tried = <<"web", "bs", "maxdate", "today">>

\* C5: every record a builder emits has a non-empty operation date and an
\* operation type or a security.
C5_EmittedRecordsAreValid ==
    (pc = "done" /\ outcome = "returned" /\ path \in {"csv", "browser", "pdf", "enhanced"})
    => \A i \in DOMAIN operations :
         /\ operations[i].operation_date # NoDate
         /\ operations[i].operation_type # "" \/ operations[i].security # ""

\* C6: a source that yields no record gives an empty result and no
\* exception, also when both sources of scrape_fedao_sources_ai yield none;
\* the first source yielding nothing does not keep the second from running.
C6_TotalFailureIsEmptyResult ==
    /\ (pc = "done" /\ path = "cloud" /\ moa_rows = 0 /\ toa_rows = 0)
         => outcome # "raised"
    /\ (pc = "done" /\ path = "cloud" /\ moa_rows = 0) => toa_done
    /\ (pc = "done" /\ path \in {"csv", "browser", "pdf", "enhanced"} /\ operations = <<>>)
         => outcome = "none"

\* C7: a run that acquires a browser handle acquires one, and has quit it
\* when the run ends.
C7_BrowserHandleDiscipline ==
    pc = "done" => (handles = 0 /\ acquired <= 1)

\* C10: the strategies are tried in the order direct fetch, markup parse,
\* interactive session (when there is a handle), maximum operation date,
\* current date; a strategy is tried only after all earlier ones found no
\* valid candidate, and the value returned is that of the first that did.
C10_CascadeOrder ==
    (pc = "done" /\ path \in {"calc", "csv"} /\ outcome = "returned")
    => LET order == IF driver THEN <<"web", "bs", "browser", "maxdate", "today">>
                    ELSE <<"web", "bs", "maxdate", "today">>
           found(k) == IF k = "today" THEN CurrentDate(today) ELSE cand[k]
           n == Len(tried)
       IN  /\ n \in 1..Len(order)
           /\ \A i \in 1..n : tried[i] = order[i]
           /\ \A i \in 1..(n - 1) : found(tried[i]) = 0
           /\ found(tried[n]) # 0
           /\ release_date = found(tried[n])

-----------------------------------------------------------------------------
(***************************************************************************)
(* The CSV sink: FEDAOParser.save_to_csv on one output path.  A file is    *)
(* the sequence of its rows, each the header row or a data row.            *)
(***************************************************************************)
MaxCalls == 3       \* save_to_csv calls in one behaviour

\* n data rows, one per operation (writer.writerow in the loop)
DataRows(n) == [i \in 1..n |-> "data"]

\* the file after save_to_csv(operations, output_path, append) with
\* len(operations) = n: mode 'w' truncates, mode 'a' keeps the rows
SavedFile(f, n, append) ==
    LET \* file_exists: open(path, 'r') succeeds
        file_exists == f.exists
        \* write_header = not append or not self.file_exists(output_path)
        write_header == ~append \/ ~file_exists
    IN  [exists |-> TRUE,
         rows |-> (IF append THEN f.rows ELSE <<>>)
                  \o (IF write_header THEN <<"header">> ELSE <<>>)
                  \o DataRows(n)]

InitCsv ==
    /\ today = Date(2026, 11, 3)
    /\ DateIdle /\ MoaIdle /\ NormIdle /\ ExtIdle
    \* the files output_path may hold before the first call: none, an empty
    \* one, and files written by earlier saves
    /\ csv_file \in
         {[exists |-> FALSE, rows |-> <<>>], [exists |-> TRUE, rows |-> <<>>]}
         \cup {[exists |-> TRUE, rows |-> <<"header">> \o DataRows(n)] : n \in 0..1}
    /\ csv_calls = 0
    /\ csv_last = [append |-> FALSE, n |-> 0, before |-> csv_file]

SaveToCsv ==
    /\ csv_calls < MaxCalls
    /\ \E n \in 0..MaxOps, append \in BOOLEAN :
         /\ csv_file' = SavedFile(csv_file, n, append)
         /\ csv_last' = [append |-> append, n |-> n, before |-> csv_file]
    /\ csv_calls' = csv_calls + 1
    /\ UNCHANGED <<dateVars, moaVars, normVars, extVars>>

SpecCsv == InitCsv /\ [][SaveToCsv]_vars

\* C8: after any sequence of save_to_csv calls the file is one header row
\* followed only by data rows; a non-append call leaves the header and one
\* row per record, an append call to an existing file adds rows only.
C8_HeaderExactlyOnce ==
    csv_calls > 0 =>
      /\ csv_file.rows # <<>>
      /\ csv_file.rows[1] = "header"
      /\ \A i \in 2..Len(csv_file.rows) : csv_file.rows[i] = "data"
      /\ ~csv_last.append
           => csv_file.rows = <<"header">> \o DataRows(csv_last.n)
      /\ (csv_last.append /\ csv_last.before.exists)
           => csv_file.rows = csv_last.before.rows \o DataRows(csv_last.n)

-----------------------------------------------------------------------------
(***************************************************************************)
(* The output normalizer: standardize_output_format, the cleaning of the   *)
(* two CSV writers of frbny_parser.py and post_process_extracted_data of   *)
(* main.py.  A string is the sequence of its characters; a field value is  *)
(* a string or an integer (release_date is stamped as int(date)); a record *)
(* is a function from its keys to values.                                  *)
(***************************************************************************)
MaxLen == 3         \* characters of one field value
MaxApply == 3       \* normalizer stages applied to one record

Whitespace == {" ", "\t", "\n", "\r"}
Million == <<"M", "i", "l", "l", "i", "o", "n">>

StrVal(s) == [t |-> "str", s |-> s, n |-> 0]

\* fieldnames: the public schema
Fieldnames ==
    {"operation_date", "operation_time", "settlement_date", "operation_type",
     "security_type_and_maturity", "maturity_range", "maximum_operation_currency",
     "maximum_operation_size", "maximum_operation_multiplier", "release_date"}

\* op.get(key, '')
Get(op, key) == IF key \in DOMAIN op THEN op[key] ELSE StrVal(<<>>)

\* standardize_output_format, for one record
StandardizeOutputFormat(op) ==
    LET \* the builder key read for each public key
        BuilderKeyOf(f) ==
            CASE f = "operation_date" -> "OPERATION DATE"
              [] f = "operation_time" -> "OPERATION TIME (ET)"
              [] f = "settlement_date" -> "SETTLEMENT DATE"
              [] f = "operation_type" -> "OPERATION TYPE"
              [] f = "security_type_and_maturity" -> "SECURITY TYPE AND MATURITY"
              [] f = "maturity_range" -> "MATURITY RANGE"
              [] f = "maximum_operation_currency" -> "MAXIMUM OPERATION CURRENCY"
              [] f = "maximum_operation_size" -> "MAXIMUM OPERATION SIZE"
              [] f = "maximum_operation_multiplier" -> "MAXIMUM OPERATION MULTIPLIER"
              [] f = "release_date" -> "release_date"
    IN  [f \in Fieldnames |-> Get(op, BuilderKeyOf(f))]

\* str.replace(',', '')
RemoveCommas(s) == SelectSeq(s, LAMBDA c : c # ",")

RECURSIVE LStrip(_)
LStrip(s) == IF s # <<>> /\ Head(s) \in Whitespace THEN LStrip(Tail(s)) ELSE s

RECURSIVE RStrip(_)
RStrip(s) ==
    IF s # <<>> /\ s[Len(s)] \in Whitespace
    THEN RStrip(SubSeq(s, 1, Len(s) - 1)) ELSE s

\* str.strip()
Strip(s) == RStrip(LStrip(s))

\* value.replace(',', '').strip(), the slip of stripping first
StripThenRemoveCommas(v) ==
    IF v.t = "str" THEN StrVal(RemoveCommas(Strip(v.s))) ELSE v

\* if isinstance(value, str): value = value.replace(',', '').strip()
CleanValue(v) ==
    IF v.t = "str" THEN StrVal(Strip(RemoveCommas(v.s))) ELSE v

\* the row a CSV writer builds from one record: every field of fieldnames,
\* cleaned
CleanRow(op) == [f \in Fieldnames |-> CleanValue(Get(op, f))]

\* ' '.join(s.split()): runs of whitespace become one space, none is left
\* at either end
RECURSIVE Collapse(_)
Collapse(s) ==
    IF s = <<>> THEN <<>>
    ELSE IF Head(s) \in Whitespace
    THEN IF Tail(s) = <<>> \/ Head(Tail(s)) \in Whitespace
         THEN Collapse(Tail(s))
         ELSE <<" ">> \o Collapse(Tail(s))
    ELSE <<Head(s)>> \o Collapse(Tail(s))

\* the cleaning loop of post_process_extracted_data, for one value
PostCleanValue(v) ==
    LET \* re.sub(r'[,\t\n\r]', ' ', s)
        ReplaceIndentation(s) ==
            [i \in DOMAIN s |-> IF s[i] \in {",", "\t", "\n", "\r"} THEN " " ELSE s[i]]
    IN  IF v.t = "str" /\ v.s # <<>>
        THEN StrVal(LStrip(Collapse(ReplaceIndentation(v.s))))
        ELSE v

Digits == <<"0", "1", "2", "3", "4", "5", "6", "7", "8", "9">>

\* int(s) of a string of digits
RECURSIVE Decimal(_)
Decimal(s) ==
    IF s = <<>> THEN 0
    ELSE 10 * Decimal(SubSeq(s, 1, Len(s) - 1))
         + (CHOOSE i \in DOMAIN Digits : Digits[i] = s[Len(s)]) - 1

\* float(x) of a field value: -1 stands for ValueError
ValueError == -1
Float(v) ==
    IF v.t = "int" THEN v.n
    ELSE LET s == Strip(v.s) IN
         IF s # <<>> /\ \A i \in DOMAIN s : \E j \in DOMAIN Digits : Digits[j] = s[i]
         THEN Decimal(s) ELSE ValueError

\* the truth value of processed_row.get(key): a missing key gives None,
\* which is falsy like '' and 0
HasTruthy(op, key) ==
    /\ key \in DOMAIN op
    /\ IF op[key].t = "int" THEN op[key].n # 0 ELSE op[key].s # <<>>

\* post_process_extracted_data, for one row
PostProcessExtractedData(row) ==
    LET cleaned == [k \in DOMAIN row |-> PostCleanValue(row[k])] IN
    IF /\ ~HasTruthy(cleaned, "maximum_operation_multiplier")
       /\ HasTruthy(cleaned, "maximum_operation_size")
       /\ Float(cleaned["maximum_operation_size"]) # ValueError
       /\ Float(cleaned["maximum_operation_size"]) >= 1
       /\ Float(cleaned["maximum_operation_size"]) <= 10000
    THEN [k \in DOMAIN cleaned \cup {"maximum_operation_multiplier"} |->
            IF k = "maximum_operation_multiplier" THEN StrVal(Million)
            ELSE cleaned[k]]
    ELSE cleaned

\* the record a builder emits (builder keys) or the AI extractor returns
\* (public keys): one text in every text field and in the size, a
\* multiplier and the stamped release date
InputRecord(schema, text, mult) ==
    [k \in (IF schema = "builder"
             THEN {"OPERATION DATE", "OPERATION TIME (ET)", "SETTLEMENT DATE",
                   "OPERATION TYPE", "SECURITY TYPE AND MATURITY", "MATURITY RANGE",
                   "MAXIMUM OPERATION CURRENCY", "MAXIMUM OPERATION SIZE",
                   "MAXIMUM OPERATION MULTIPLIER", "release_date"}
             ELSE Fieldnames) |->
        IF k = "release_date" THEN [t |-> "int", s |-> <<>>, n |-> 20261103]
        ELSE IF k \in {"MAXIMUM OPERATION MULTIPLIER", "maximum_operation_multiplier"}
        THEN StrVal(mult)
        ELSE StrVal(text)]

InitNorm ==
    /\ today = Date(2026, 11, 3)
    /\ DateIdle /\ MoaIdle /\ CsvIdle /\ ExtIdle
    /\ \E schema \in {"builder", "public"}, text \in UNION {[1..n -> {"5", "0", ",", " ", "\t"}] : n \in 0..MaxLen},
          mult \in {<<>>, Million} :
         norm_rec = InputRecord(schema, text, mult)
    /\ norm_prev = norm_rec
    /\ norm_ops = <<>>

\* CombinedFRBNYScraper.parse_pdf: return standardize_output_format(pdf_data)
ParsePdfStandardize ==
    /\ Len(norm_ops) < MaxApply
    /\ norm_rec' = StandardizeOutputFormat(norm_rec)
    /\ norm_prev' = norm_rec
    /\ norm_ops' = Append(norm_ops, "standardize")
    /\ UNCHANGED <<dateVars, moaVars, csvVars, extVars>>

\* CombinedFRBNYScraper.save_to_csv: standardize, then clean every field
FrbnySaveToCsv ==
    /\ Len(norm_ops) < MaxApply
    /\ norm_rec' = CleanRow(StandardizeOutputFormat(norm_rec))
    /\ norm_prev' = norm_rec
    /\ norm_ops' = Append(norm_ops, "save_to_csv")
    /\ UNCHANGED <<dateVars, moaVars, csvVars, extVars>>

\* FixedFRBNYParser.to_csv: clean every field of self.data
FixedToCsv ==
    /\ Len(norm_ops) < MaxApply
    /\ norm_rec' = CleanRow(norm_rec)
    /\ norm_prev' = norm_rec
    /\ norm_ops' = Append(norm_ops, "to_csv")
    /\ UNCHANGED <<dateVars, moaVars, csvVars, extVars>>

\* scrape_*_operations_enhanced_ai: post_process_extracted_data(data, ...)
PostProcess ==
    /\ Len(norm_ops) < MaxApply
    /\ norm_rec' = PostProcessExtractedData(norm_rec)
    /\ norm_prev' = norm_rec
    /\ norm_ops' = Append(norm_ops, "post_process")
    /\ UNCHANGED <<dateVars, moaVars, csvVars, extVars>>

SpecNorm ==
    InitNorm /\ [][ParsePdfStandardize \/ FrbnySaveToCsv \/ FixedToCsv
                     \/ PostProcess]_vars

\* C9: passing an already-normalized record through the normalizer again
\* (the field mapping, the cleaning of save_to_csv, post-processing) yields
\* an identical record.
C9_NormalizerIdempotent ==
    (/\ Len(norm_ops) >= 2
     /\ norm_ops[Len(norm_ops)] \in {"standardize", "save_to_csv", "to_csv", "post_process"}
     /\ norm_ops[Len(norm_ops) - 1] = norm_ops[Len(norm_ops)])
    => norm_rec = norm_prev

\* C9 amended: the cleaning stages (the comma and whitespace cleaning of the
\* CSV writer, post-processing) leave a record they have already cleaned
\* identical.
C9_CleaningIdempotent ==
    (/\ Len(norm_ops) >= 2
     /\ norm_ops[Len(norm_ops)] \in {"to_csv", "post_process"}
     /\ norm_ops[Len(norm_ops) - 1] = norm_ops[Len(norm_ops)])
    => norm_rec = norm_prev

\* C9 witness: a value with a comma and outer whitespace was cleaned, and
\* the second cleaning ran
C9_Witness ==
    /\ norm_ops = <<"to_csv", "to_csv">>
    /\ norm_prev = norm_rec
    /\ norm_rec["operation_type"] = StrVal(<<"5">>)

-----------------------------------------------------------------------------
(***************************************************************************)
(* The MOA record builder: FEDAOParser of fedao_parser.py.  A text is the  *)
(* sequence of its stripped non-empty lines; a line is the sequence of its *)
(* tokens, the pieces that whitespace separates for the parser's patterns: *)
(* a date, a time or time range, a coupon rate, a dollar amount            *)
(* "$<digits> Million" (the token keeps the digits), or other text.        *)
(* Strings are sequences of characters.                                    *)
(***************************************************************************)
MaxLines == 3       \* lines of one text

LowerCase == <<"a", "b", "c", "d", "e", "f", "g", "h", "i", "j", "k", "l", "m", "n", "o", "p", "q", "r", "s", "t", "u", "v", "w", "x", "y", "z">>
UpperCase == <<"A", "B", "C", "D", "E", "F", "G", "H", "I", "J", "K", "L", "M", "N", "O", "P", "Q", "R", "S", "T", "U", "V", "W", "X", "Y", "Z">>

\* c occurs in the string
IsIn(c, alphabet) == \E i \in DOMAIN alphabet : alphabet[i] = c

\* str.upper()
Upper(s) ==
    [i \in DOMAIN s |->
        IF IsIn(s[i], LowerCase)
        THEN UpperCase[CHOOSE j \in DOMAIN LowerCase : LowerCase[j] = s[i]]
        ELSE s[i]]

\* needle in hay
Contains(hay, needle) ==
    \E i \in 1..(Len(hay) - Len(needle) + 1) :
        SubSeq(hay, i, i + Len(needle) - 1) = needle

\* str.startswith, str.endswith
StartsWith(s, prefix) ==
    Len(s) >= Len(prefix) /\ SubSeq(s, 1, Len(prefix)) = prefix
EndsWith(s, suffix) ==
    Len(s) >= Len(suffix) /\ SubSeq(s, Len(s) - Len(suffix) + 1, Len(s)) = suffix

\* str(n) of a natural number
RECURSIVE ToDigits(_)
ToDigits(n) ==
    IF n < 10 THEN <<Digits[n + 1]>>
    ELSE Append(ToDigits(n \div 10), Digits[(n % 10) + 1])

Tok(kind, str) == [k |-> kind, s |-> str]

\* the characters of a token
TokText(t) == IF t.k = "amt" THEN <<"$">> \o t.s \o <<" ", "M", "i", "l", "l", "i", "o", "n">> ELSE t.s

\* the characters of a line, or of lines joined by ' '
RECURSIVE Text(_)
Text(toks) ==
    IF toks = <<>> THEN <<>>
    ELSE IF Len(toks) = 1 THEN TokText(toks[1])
    ELSE TokText(toks[1]) \o <<" ">> \o Text(Tail(toks))

\* the index of the first token of one of the kinds, 0 when there is none
FirstTok(toks, kinds) ==
    IF \E i \in DOMAIN toks : toks[i].k \in kinds
    THEN CHOOSE i \in DOMAIN toks :
            /\ toks[i].k \in kinds
            /\ \A j \in 1..(i - 1) : toks[j].k \notin kinds
    ELSE 0

\* extract_time_from_text: the first time range, else the first single
\* time, else the default
ExtractTimeFromText(toks) ==
    IF FirstTok(toks, {"timerange"}) # 0
    THEN toks[FirstTok(toks, {"timerange"})].s
    ELSE IF FirstTok(toks, {"time"}) # 0
    THEN toks[FirstTok(toks, {"time"})].s
    ELSE <<"1", "1", ":", "3", "0", " ", "A", "M", " ", "-", " ", "1", "1", ":", "5", "0", " ", "A", "M">>

\* extract_operation_type_from_text
ExtractOperationTypeFromText(toks) ==
    LET text_clean == Upper(Text(toks)) IN
    IF Contains(text_clean, <<"T", "B", "A", " ", "P", "U", "R", "C", "H", "A", "S", "E", ":", " ", "1", "5", "-", "Y", "E", "A", "R", " ", "U", "N", "I", "F", "O", "R", "M", " ", "M", "B", "S">>)
    THEN <<"T", "B", "A", " ", "P", "u", "r", "c", "h", "a", "s", "e", ":", " ", "1", "5", "-", "y", "e", "a", "r", " ", "U", "n", "i", "f", "o", "r", "m", " ", "M", "B", "S">>
    ELSE IF Contains(text_clean, <<"T", "B", "A", " ", "P", "U", "R", "C", "H", "A", "S", "E", ":", " ", "3", "0", "-", "Y", "E", "A", "R", " ", "G", "I", "N", "N", "I", "E", " ", "M", "A", "E">>)
    THEN <<"T", "B", "A", " ", "P", "u", "r", "c", "h", "a", "s", "e", ":", " ", "3", "0", "-", "y", "e", "a", "r", " ", "G", "i", "n", "n", "i", "e", " ", "M", "a", "e">>
    ELSE IF Contains(text_clean, <<"T", "B", "A", " ", "P", "U", "R", "C", "H", "A", "S", "E">>) THEN <<"T", "B", "A", " ", "P", "u", "r", "c", "h", "a", "s", "e">>
    ELSE IF Contains(text_clean, <<"P", "U", "R", "C", "H", "A", "S", "E">>) THEN <<"P", "u", "r", "c", "h", "a", "s", "e">>
    ELSE IF Contains(text_clean, <<"S", "A", "L", "E">>) THEN <<"S", "a", "l", "e">>
    ELSE <<"T", "B", "A", " ", "P", "u", "r", "c", "h", "a", "s", "e">>

\* f"{ticker} {rate}"
Security(ticker, rate) == ticker \o <<" ">> \o rate

\* securities.append(security) unless it is in found_securities
AppendNew(securities, security) ==
    IF \E i \in DOMAIN securities : securities[i] = security
    THEN securities ELSE Append(securities, security)

\* specific_patterns
KnownTickers == <<<<"F", "N", "C", "I">>, <<"G", "2", "S", "F">>, <<"F", "N", "C", "L">>, <<"F", "G", "L", "M", "C">>, <<"U", "M", "B", "S">>>>

\* re.findall(ticker + r'\s+(\d+\.\d+)', text, re.IGNORECASE) from token i
\* on: the rates that follow text ending in the ticker
RECURSIVE PatternMatches(_, _, _)
PatternMatches(toks, ticker, i) ==
    IF i >= Len(toks) THEN <<>>
    ELSE (IF EndsWith(Upper(TokText(toks[i])), ticker) /\ toks[i + 1].k = "rate"
          THEN <<toks[i + 1].s>> ELSE <<>>)
         \o PatternMatches(toks, ticker, i + 1)

\* method 1 of extract_securities_from_text: the known patterns, pattern
\* by pattern, each with its matches in text order
RECURSIVE KnownPass(_, _, _, _)
KnownPass(toks, p, rates, securities) ==
    IF rates # <<>>
    THEN KnownPass(toks, p, Tail(rates),
                   AppendNew(securities, Security(KnownTickers[p], Head(rates))))
    ELSE IF p < Len(KnownTickers)
    THEN KnownPass(toks, p + 1, PatternMatches(toks, KnownTickers[p + 1], 1),
                   securities)
    ELSE securities

\* the group ([A-Z]{1,8}) before \s+: the upper-case letters that end the
\* string, the last eight of them at most
UpperRun(s) ==
    LET RECURSIVE Run(_)
        Run(x) == IF x # <<>> /\ IsIn(x[Len(x)], UpperCase)
                  THEN Append(Run(SubSeq(x, 1, Len(x) - 1)), x[Len(x)])
                  ELSE <<>>
        r == Run(s)
    IN  IF Len(r) > 8 THEN SubSeq(r, Len(r) - 7, Len(r)) ELSE r

\* clean_security_ticker; <<>> stands for None
CleanSecurityTicker(ticker, context_text) ==
    LET context == Upper(context_text)
        t1 == IF StartsWith(ticker, <<"M", "B", "S">>)
              THEN Strip(SubSeq(ticker, 4, Len(ticker))) ELSE ticker
        t2 == IF t1 = <<"S", "F">>
              THEN IF Contains(context, <<"G", "2", "S", "F">>) THEN <<"G", "2", "S", "F">>
                   ELSE IF Contains(context, <<"F", "G", "S", "F">>) THEN <<"F", "G", "S", "F">> ELSE t1
              ELSE IF t1 = <<"N", "C", "I">>
              THEN IF Contains(context, <<"F", "N", "C", "I">>) THEN <<"F", "N", "C", "I">> ELSE t1
              ELSE IF EndsWith(t1, <<"N", "C", "I">>) /\ Len(t1) > 3 THEN <<"F", "N", "C", "I">>
              ELSE IF EndsWith(t1, <<"S", "F">>) /\ Len(t1) > 2
              THEN IF ~StartsWith(t1, <<"G", "2">>) THEN <<"G", "2", "S", "F">> ELSE t1
              ELSE t1
    IN  IF Len(t2) \in 2..5 /\ \A i \in DOMAIN t2 : IsIn(t2[i], UpperCase)
        THEN t2 ELSE <<>>

\* method 2: re.findall(r'([A-Z]{1,8})\s+(\d+\.\d+)', text) from token i
\* on, each ticker cleaned
RECURSIVE GeneralPass(_, _, _)
GeneralPass(toks, i, securities) ==
    IF i >= Len(toks) THEN securities
    ELSE LET ticker == UpperRun(TokText(toks[i]))
             cleaned_ticker == CleanSecurityTicker(ticker, Text(toks))
         IN  IF ticker # <<>> /\ toks[i + 1].k = "rate" /\ Len(cleaned_ticker) >= 2
             THEN GeneralPass(toks, i + 1,
                      AppendNew(securities, Security(cleaned_ticker, toks[i + 1].s)))
             ELSE GeneralPass(toks, i + 1, securities)

\* extract_securities_contextual, from the rate token i on: the text from
\* 50 characters before the first occurrence of the rate to 20 after its
\* start is searched for a known ticker
RECURSIVE ExtractSecuritiesContextual(_, _, _)
ExtractSecuritiesContextual(toks, i, securities) ==
    IF i > Len(toks) THEN securities
    ELSE IF toks[i].k # "rate" THEN ExtractSecuritiesContextual(toks, i + 1, securities)
    ELSE LET \* re.findall(r'\b([A-Z]{2,5})\b', context): the runs of word
             \* characters that are two to five upper-case letters
             RECURSIVE Runs(_, _)
             Runs(s, cur) ==
                 IF s = <<>> THEN (IF cur = <<>> THEN <<>> ELSE <<cur>>)
                 ELSE IF IsIn(Head(s), UpperCase \o LowerCase \o Digits \o <<"_">>)
                 THEN Runs(Tail(s), Append(cur, Head(s)))
                 ELSE (IF cur = <<>> THEN <<>> ELSE <<cur>>) \o Runs(Tail(s), <<>>)
             TickerMatches(context) ==
                 SelectSeq(Runs(context, <<>>),
                           LAMBDA w : /\ Len(w) \in 2..5
                                      /\ \A j \in DOMAIN w : IsIn(w[j], UpperCase))
             text == Text(toks)
             rate == toks[i].s
             rate_pos == CHOOSE p \in 1..Len(text) :
                            /\ SubSeq(text, p, p + Len(rate) - 1) = rate
                            /\ \A q \in 1..(p - 1) : SubSeq(text, q, q + Len(rate) - 1) # rate
             lo == IF rate_pos - 50 < 1 THEN 1 ELSE rate_pos - 50
             hi == IF rate_pos + 19 > Len(text) THEN Len(text) ELSE rate_pos + 19
             found == SelectSeq(TickerMatches(SubSeq(text, lo, hi)),
                         LAMBDA t : /\ \E k \in DOMAIN KnownTickers : KnownTickers[k] = t
                                    /\ \A k \in DOMAIN securities :
                                          securities[k] # Security(t, rate))
         IN  ExtractSecuritiesContextual(toks, i + 1,
                 IF found = <<>> THEN securities
                 ELSE Append(securities, Security(found[1], rate)))

\* extract_securities_from_text
ExtractSecuritiesFromText(toks) ==
    LET known == KnownPass(toks, 1, PatternMatches(toks, KnownTickers[1], 1), <<>>)
        general == GeneralPass(toks, 1, <<>>)
    IN  IF known # <<>> THEN known
        ELSE IF general # <<>> THEN general
        ELSE ExtractSecuritiesContextual(toks, 1, <<>>)

\* re.findall(r'\$(\d+)\s+Million', text, re.IGNORECASE): the digits of
\* the amounts, in order
AmountMatches(toks) ==
    LET amts == SelectSeq(toks, LAMBDA t : t.k = "amt")
    IN  [i \in DOMAIN amts |-> amts[i].s]

\* max(amount_values) of a non-empty list
MaxAmount(values) ==
    CHOOSE v \in {values[i] : i \in DOMAIN values} :
        \A i \in DOMAIN values : values[i] <= v

\* an individual-amount list that leaves out every occurrence of the largest
\* value of three amounts or more
ExcludeEveryLargest(toks) ==
    LET amount_matches == AmountMatches(toks)
        amount_values == [i \in DOMAIN amount_matches |-> Decimal(amount_matches[i])]
        individual == SelectSeq(amount_values,
                          LAMBDA val : val # MaxAmount(amount_values))
        kept == IF Len(amount_values) <= 2 THEN amount_values
                ELSE IF individual # <<>> THEN individual
                ELSE SubSeq(amount_values, 1, Len(amount_values) - 1)
    IN  [i \in DOMAIN kept |-> ToDigits(kept[i])]

\* individual amounts that are, from three amounts on, all but the last
AllButLastAmounts(toks) ==
    LET amount_matches == AmountMatches(toks)
        amount_values == [i \in DOMAIN amount_matches |-> Decimal(amount_matches[i])]
        kept == IF Len(amount_values) <= 2 THEN amount_values
                ELSE SubSeq(amount_values, 1, Len(amount_values) - 1)
    IN  [i \in DOMAIN kept |-> ToDigits(kept[i])]

\* f"${val} Million" is kept as the digits of val; '' is <<>>
\* extract_individual_amounts
ExtractIndividualAmounts(toks) ==
    LET amount_matches == AmountMatches(toks)
        amount_values == [i \in DOMAIN amount_matches |-> Decimal(amount_matches[i])]
        individual == SelectSeq(amount_values,
                          LAMBDA val : \/ val # MaxAmount(amount_values)
                                       \/ Cardinality({i \in DOMAIN amount_values :
                                                          amount_values[i] = val}) > 1)
        kept == IF Len(amount_values) <= 2 THEN amount_values
                ELSE IF individual # <<>> THEN individual
                ELSE SubSeq(amount_values, 1, Len(amount_values) - 1)
    IN  [i \in DOMAIN kept |-> ToDigits(kept[i])]

\* an operation maximum taken over the individual amounts alone
MaximumOfIndividual(toks) ==
    LET individual == ExtractIndividualAmounts(toks)
    IN  IF individual = <<>> THEN <<"0">>
        ELSE ToDigits(MaxAmount([i \in DOMAIN individual |-> Decimal(individual[i])]))

\* extract_operation_maximum
ExtractOperationMaximum(toks) ==
    LET amount_matches == AmountMatches(toks)
    IN  IF amount_matches = <<>> THEN <<"0">>
        ELSE ToDigits(MaxAmount([i \in DOMAIN amount_matches |->
                                    Decimal(amount_matches[i])]))

\* all lines as one sequence of tokens
RECURSIVE Flatten(_)
Flatten(lines) == IF lines = <<>> THEN <<>> ELSE Head(lines) \o Flatten(Tail(lines))

\* extract_source_date_from_title: the first MM/DD/YYYY to MM/DD/YYYY of
\* the text gives its end date as YYYYMMDD when that is a calendar date,
\* and the current date is used otherwise
ExtractSourceDateFromTitle(lines, t) ==
    LET toks == Flatten(lines)
        TwoDigit(tok) == /\ tok.k = "date" /\ Len(tok.s) = 10
                         /\ tok.s[3] = "/" /\ tok.s[6] = "/"
        Hit(i) == /\ TwoDigit(toks[i]) /\ TokText(toks[i + 1]) = <<"t", "o">>
                  /\ TwoDigit(toks[i + 2])
        hits == {i \in 1..(Len(toks) - 2) : Hit(i)}
        first == CHOOSE i \in hits : \A j \in hits : i <= j
        \* datetime.strptime(end_date_str, '%m/%d/%Y')
        ParseMdy(s) ==
            Date(Decimal(SubSeq(s, 7, 10)), Decimal(SubSeq(s, 1, 2)),
                 Decimal(SubSeq(s, 4, 5)))
    IN  IF hits # {} /\ Strptime(ParseMdy(toks[first + 2].s))
        THEN Strftime(ParseMdy(toks[first + 2].s))
        ELSE Strftime(t)

\* re.search(r'^\s*\d{1,2}/\d{1,2}/\d{4}', line)
StartsWithDate(line) == line # <<>> /\ line[1].k = "date"

\* find_table_start from line i on (1-based); 0 stands for -1
RECURSIVE FindTableStart(_, _)
FindTableStart(lines, i) ==
    IF i > Len(lines) THEN 0
    ELSE LET line_upper == Upper(Text(lines[i])) IN
         IF /\ Contains(line_upper, <<"O", "P", "E", "R", "A", "T", "I", "O", "N", " ", "D", "A", "T", "E">>)
            /\ Contains(line_upper, <<"O", "P", "E", "R", "A", "T", "I", "O", "N", " ", "T", "I", "M", "E">>)
            /\ Contains(line_upper, <<"O", "P", "E", "R", "A", "T", "I", "O", "N", " ", "T", "Y", "P", "E">>)
         THEN i + 1
         ELSE IF StartsWithDate(lines[i]) THEN i
         ELSE FindTableStart(lines, i + 1)

\* one output record of the MOA builder
MoaRecord(date, time, type, security, amount, maximum, source_date) ==
    [OperationDate |-> date, OperationTime |-> time, OperationType |-> type,
     Securities |-> security, SecurityMaximums |-> amount,
     OperationMaximum |-> maximum, Source_Date |-> source_date]

\* operation lines that end at the next leading date alone
RECURSIVE OperationLinesToNextDate(_, _)
OperationLinesToNextDate(lines, i) ==
    IF i > Len(lines) \/ StartsWithDate(lines[i]) THEN <<>>
    ELSE <<lines[i]>> \o OperationLinesToNextDate(lines, i + 1)

\* parse_single_operation: the lines of the operation that starts at
\* lines[1], from line i on
RECURSIVE OperationLines(_, _)
OperationLines(lines, i) ==
    IF i > Len(lines) THEN <<>>
    ELSE LET folded == Upper(Text(lines[i])) IN
         IF \/ StartsWithDate(lines[i])
            \/ Contains(folded, <<"S", "E", "T", "T", "L", "E", "M", "E", "N", "T", " ", "D", "A", "T", "E", "S">>)
            \/ Contains(folded, <<"F", "O", "R", " ", "S", "M", "A", "L", "L", " ", "V", "A", "L", "U", "E">>)
            \/ Contains(folded, <<"T", "H", "E", " ", "F", "N", "C", "L">>)
            \/ Contains(folded, <<"T", "E", "N", "T", "A", "T", "I", "V", "E", " ", "S", "C", "H", "E", "D", "U", "L", "E">>)
         THEN <<>>
         ELSE <<lines[i]>> \o OperationLines(lines, i + 1)

\* the record lists of parse_single_operation with zip alone: a security
\* without an amount of its own gets no record
PairedRecordsOnly(securities, amounts, maximum, date, time, type, source_date) ==
    [i \in 1..(IF Len(securities) < Len(amounts) THEN Len(securities) ELSE Len(amounts)) |->
        MoaRecord(date, time, type, securities[i], amounts[i], maximum, source_date)]

\* the record lists of a pairing that leaves the amount of a security
\* without an amount of its own empty
PairedRecordsBlank(securities, amounts, maximum, date, time, type, source_date) ==
    [i \in DOMAIN securities |->
        MoaRecord(date, time, type, securities[i],
                  IF i <= Len(amounts) THEN amounts[i] ELSE <<>>,
                  maximum, source_date)]

\* the records parse_single_operation creates from the securities and the
\* individual amounts of a block
PairedRecords(securities, amounts, maximum, date, time, type, source_date) ==
    IF Len(securities) = Len(amounts)
    THEN [i \in DOMAIN securities |->
            MoaRecord(date, time, type, securities[i], amounts[i], maximum, source_date)]
    ELSE IF Len(securities) = 1
    THEN <<MoaRecord(date, time, type, securities[1],
                     IF amounts # <<>> THEN amounts[1] ELSE maximum,
                     maximum, source_date)>>
    ELSE IF Len(securities) > 1
    THEN [i \in DOMAIN securities |->
            MoaRecord(date, time, type, securities[i],
                      IF i <= Len(amounts) THEN amounts[i] ELSE maximum,
                      maximum, source_date)]
    ELSE <<>>

\* parse_single_operation(lines, source_date), lines[1] holding a date
ParseSingleOperation(lines, source_date) ==
    LET operation_lines == <<lines[1]>> \o OperationLines(lines, 2)
        combined_text == Flatten(operation_lines)
        securities == ExtractSecuritiesFromText(combined_text)
        individual_amounts == ExtractIndividualAmounts(combined_text)
    IN  [operations |->
            PairedRecords(securities, individual_amounts,
                          ExtractOperationMaximum(combined_text),
                          lines[1][FirstTok(lines[1], {"date"})].s,
                          ExtractTimeFromText(combined_text),
                          ExtractOperationTypeFromText(combined_text), source_date),
         lines_consumed |-> Len(operation_lines),
         securities |-> securities,
         amounts |-> Len(individual_amounts),
         matched |-> AmountMatches(combined_text),
         individual |-> individual_amounts,
         text |-> combined_text,
         type |-> ExtractOperationTypeFromText(combined_text)]

\* an operation type that the security never overrides
KeepDetectedType(security, default_type) == default_type

\* determine_operation_type_from_security
DetermineOperationTypeFromSecurity(security, default_type) ==
    IF Contains(Upper(security), <<"F", "N", "C", "I">>) THEN <<"T", "B", "A", " ", "P", "u", "r", "c", "h", "a", "s", "e", ":", " ", "1", "5", "-", "y", "e", "a", "r", " ", "U", "n", "i", "f", "o", "r", "m", " ", "M", "B", "S">>
    ELSE IF Contains(Upper(security), <<"G", "2", "S", "F">>) THEN <<"T", "B", "A", " ", "P", "u", "r", "c", "h", "a", "s", "e", ":", " ", "3", "0", "-", "y", "e", "a", "r", " ", "G", "i", "n", "n", "i", "e", " ", "M", "a", "e">>
    ELSE IF Contains(Upper(security), <<"F", "N", "C", "L">>) THEN <<"T", "B", "A", " ", "P", "u", "r", "c", "h", "a", "s", "e", ":", " ", "3", "0", "-", "y", "e", "a", "r", " ", "U", "n", "i", "f", "o", "r", "m", " ", "M", "B", "S">>
    ELSE default_type

\* finalize_operation(operation_data, source_date); the amounts are the
\* matched digits
FinalizeOperation(op, source_date) ==
    LET time == IF op.time # <<>> THEN op.time ELSE <<"1", "1", ":", "3", "0", " ", "A", "M", " ", "-", " ", "1", "1", ":", "5", "0", " ", "A", "M">>
        op_type == IF op.type # <<>> THEN op.type ELSE <<"T", "B", "A", " ", "P", "u", "r", "c", "h", "a", "s", "e">>
        operation_maximum ==
            IF op.amounts # <<>>
            THEN ToDigits(MaxAmount([i \in DOMAIN op.amounts |-> Decimal(op.amounts[i])]))
            ELSE <<"0">>
    IN  IF op.securities = <<>>
        THEN <<MoaRecord(op.date, time, op_type, <<>>,
                         IF op.amounts # <<>> THEN op.amounts[1] ELSE <<>>,
                         operation_maximum, source_date)>>
        ELSE [i \in DOMAIN op.securities |->
                MoaRecord(op.date, time,
                          DetermineOperationTypeFromSecurity(op.securities[i], op_type),
                          op.securities[i],
                          IF i <= Len(op.amounts) THEN op.amounts[i] ELSE operation_maximum,
                          operation_maximum, source_date)]

\* the first loop of parse_fallback_format from line i on: the rows
\* between the first header line and the first footer line after it
RECURSIVE TableRows(_, _, _)
TableRows(lines, i, in_table) ==
    IF i > Len(lines) THEN <<>>
    ELSE LET folded == Upper(Text(lines[i])) IN
         IF \/ Contains(folded, <<"O", "P", "E", "R", "A", "T", "I", "O", "N", " ", "D", "A", "T", "E">>)
            \/ Contains(folded, <<"O", "P", "E", "R", "A", "T", "I", "O", "N", " ", "T", "I", "M", "E">>)
            \/ Contains(folded, <<"O", "P", "E", "R", "A", "T", "I", "O", "N", " ", "T", "Y", "P", "E">>)
         THEN TableRows(lines, i + 1, TRUE)
         ELSE IF ~in_table THEN TableRows(lines, i + 1, FALSE)
         ELSE IF \/ Contains(folded, <<"S", "E", "T", "T", "L", "E", "M", "E", "N", "T", " ", "D", "A", "T", "E", "S", " ", "F", "O", "R", " ", "T", "B", "A">>)
                 \/ Contains(folded, <<"F", "O", "R", " ", "S", "M", "A", "L", "L", " ", "V", "A", "L", "U", "E", " ", "P", "U", "R", "C", "H", "A", "S", "E">>)
                 \/ Contains(folded, <<"T", "H", "E", " ", "F", "N", "C", "L", " ", "A", "N", "D", " ", "F", "N", "C", "I">>)
                 \/ Contains(folded, <<"T", "E", "N", "T", "A", "T", "I", "V", "E", " ", "S", "C", "H", "E", "D", "U", "L", "E">>)
         THEN <<>>
         ELSE <<lines[i]>> \o TableRows(lines, i + 1, TRUE)

\* current_operation after a row: a row with a date starts an operation,
\* any other row continues the current one
RowOperation(row, cur) ==
    IF FirstTok(row, {"date"}) # 0
    THEN <<[date |-> row[FirstTok(row, {"date"})].s,
            time |-> ExtractTimeFromText(row),
            type |-> ExtractOperationTypeFromText(row),
            securities |-> ExtractSecuritiesFromText(row),
            amounts |-> AmountMatches(row)]>>
    ELSE IF cur # <<>>
    THEN <<[cur[1] EXCEPT !.securities = @ \o ExtractSecuritiesFromText(row),
                          !.amounts = @ \o AmountMatches(row)]>>
    ELSE cur

\* the lines a schedule document is made of here: the table header, a
\* header that holds one column name, the title, rows that start an
\* operation, continuation rows, a row whose date is not at its start,
\* footnotes and footers
MoaLines ==
    {<<Tok("word", <<"O", "p", "e", "r", "a", "t", "i", "o", "n", " ", "D", "a", "t", "e">>)>>,
     <<Tok("word", <<"O", "P", "E", "R", "A", "T", "I", "O", "N", " ", "D", "A", "T", "E", " ", "O", "P", "E", "R", "A", "T", "I", "O", "N", " ", "T", "I", "M", "E", " ", "O", "P", "E", "R", "A", "T", "I", "O", "N", " ", "T", "Y", "P", "E">>)>>,
     <<Tok("word", <<"S", "c", "h", "e", "d", "u", "l", "e">>), Tok("date", <<"0", "5", "/", "2", "9", "/", "2", "0", "2", "6">>), Tok("word", <<"t", "o">>),
       Tok("date", <<"0", "6", "/", "1", "2", "/", "2", "0", "2", "6">>)>>,
     <<Tok("date", <<"6", "/", "1", "/", "2", "0", "2", "6">>), Tok("word", <<"F", "N", "C", "I">>), Tok("rate", <<"5", ".", "0">>),
       Tok("amt", <<"2", "4">>)>>,
     <<Tok("date", <<"6", "/", "2", "/", "2", "0", "2", "6">>), Tok("timerange", <<"1", "0", ":", "0", "0", " ", "A", "M", " ", "-", " ", "1", "0", ":", "2", "0", " ", "A", "M">>),
       Tok("word", <<"S", "a", "l", "e">>), Tok("word", <<"F", "N", "C", "L">>), Tok("rate", <<"5", ".", "5">>),
       Tok("word", <<"G", "2", "S", "F">>), Tok("rate", <<"5", ".", "0">>), Tok("amt", <<"3", "0">>)>>,
     <<Tok("date", <<"6", "/", "3", "/", "2", "0", "2", "6">>), Tok("amt", <<"2", "4">>)>>,
     <<Tok("word", <<"f", "n", "c", "i">>), Tok("rate", <<"5", ".", "0">>)>>,
     <<Tok("amt", <<"5", "0">>), Tok("amt", <<"2", "4">>)>>,
     <<Tok("word", <<"T", "u", "e">>), Tok("date", <<"6", "/", "4", "/", "2", "0", "2", "6">>), Tok("word", <<"U", "M", "B", "S">>),
       Tok("rate", <<"5", ".", "5">>), Tok("amt", <<"1", "0">>)>>,
     <<Tok("word", <<"S", "e", "t", "t", "l", "e", "m", "e", "n", "t", " ", "d", "a", "t", "e", "s", " ", "a", "r", "e", " ", "s", "u", "b", "j", "e", "c", "t", " ", "t", "o", " ", "c", "h", "a", "n", "g", "e">>)>>,
     <<Tok("word", <<"T", "e", "n", "t", "a", "t", "i", "v", "e", " ", "s", "c", "h", "e", "d", "u", "l", "e">>)>>,
     <<Tok("date", <<"6", "/", "5", "/", "2", "0", "2", "6">>), Tok("word", <<"M", "B", "S", "A", "B", "C", "D">>), Tok("rate", <<"5", ".", "0">>),
       Tok("word", <<"X", "S", "F">>), Tok("rate", <<"5", ".", "5">>)>>,
     <<Tok("date", <<"6", "/", "8", "/", "2", "0", "2", "6">>), Tok("word", <<"F", "N", "C", "L">>), Tok("word", <<"c", "o", "u", "p", "o", "n">>),
       Tok("rate", <<"5", ".", "0">>)>>}

InitMoa ==
    /\ today = Date(2026, 11, 3)
    /\ DateIdle /\ CsvIdle /\ NormIdle /\ ExtIdle
    /\ moa_text \in UNION {[1..n -> MoaLines] : n \in 0..MaxLines}
    /\ moa_pc = "idle" /\ moa_source = 0 /\ moa_i = 0 /\ moa_ops = <<>>
    /\ moa_table = <<>> /\ moa_cur = <<>> /\ moa_block = [pass |-> "none", securities |-> <<>>, amounts |-> 0,
                    matched |-> <<>>, individual |-> <<>>, records |-> <<>>,
                    text |-> <<>>, type |-> <<>>, blocks |-> <<>>]

\* parse_tabular_data up to the call of parse_exact_format
ParseTabularData ==
    /\ moa_pc = "idle"
    /\ moa_source' = ExtractSourceDateFromTitle(moa_text, today)
    /\ moa_i' = FindTableStart(moa_text, 1)
    /\ moa_pc' = IF FindTableStart(moa_text, 1) = 0 THEN "done" ELSE "exact"
    /\ UNCHANGED <<moa_text, moa_ops, moa_table, moa_cur, moa_block>>
    /\ UNCHANGED <<dateVars, csvVars, normVars, extVars>>

\* one pass of the loop of parse_exact_format
ParseExactFormat ==
    /\ moa_pc = "exact" /\ moa_i <= Len(moa_text)
    /\ IF StartsWithDate(moa_text[moa_i])
       THEN \E r \in {ParseSingleOperation(SubSeq(moa_text, moa_i, Len(moa_text)),
                                            moa_source)} :
            /\ moa_ops' = moa_ops \o r.operations
            /\ moa_i' = moa_i + r.lines_consumed
            /\ moa_block' = [pass |-> "exact", securities |-> r.securities,
                             amounts |-> r.amounts, matched |-> r.matched,
                             individual |-> r.individual, records |-> r.operations,
                             text |-> r.text, type |-> r.type,
                             blocks |-> Append(moa_block.blocks,
                                               [first |-> moa_i,
                                                last |-> moa_i + r.lines_consumed - 1])]
       ELSE /\ moa_i' = moa_i + 1
            /\ UNCHANGED <<moa_ops, moa_block>>
    /\ UNCHANGED <<moa_pc, moa_text, moa_source, moa_table, moa_cur>>
    /\ UNCHANGED <<dateVars, csvVars, normVars, extVars>>

\* parse_tabular_data after parse_exact_format: the records are returned,
\* or parse_fallback_format starts and collects its table rows
ParseExactReturn ==
    /\ moa_pc = "exact" /\ moa_i > Len(moa_text)
    /\ IF moa_ops # <<>>
       THEN moa_pc' = "done" /\ UNCHANGED <<moa_i, moa_table>>
       ELSE /\ moa_pc' = "fallback" /\ moa_i' = 1
            /\ moa_table' = TableRows(moa_text, 1, FALSE)
    /\ UNCHANGED <<moa_text, moa_source, moa_ops, moa_cur, moa_block>>
    /\ UNCHANGED <<dateVars, csvVars, normVars, extVars>>

\* one pass of the row loop of parse_fallback_format
ParseFallbackRow ==
    /\ moa_pc = "fallback" /\ moa_i <= Len(moa_table)
    /\ IF FirstTok(moa_table[moa_i], {"date"}) # 0 /\ moa_cur # <<>>
       THEN /\ moa_ops' = moa_ops \o FinalizeOperation(moa_cur[1], moa_source)
            /\ moa_block' = [pass |-> "fallback", securities |-> moa_cur[1].securities,
                             amounts |-> Len(moa_cur[1].amounts),
                             matched |-> moa_cur[1].amounts,
                             individual |-> moa_cur[1].amounts,
                             records |-> FinalizeOperation(moa_cur[1], moa_source),
                             text |-> <<>>, type |-> moa_cur[1].type,
                             blocks |-> moa_block.blocks]
       ELSE UNCHANGED <<moa_ops, moa_block>>
    /\ moa_cur' = RowOperation(moa_table[moa_i], moa_cur)
    /\ moa_i' = moa_i + 1
    /\ UNCHANGED <<moa_pc, moa_text, moa_source, moa_table>>
    /\ UNCHANGED <<dateVars, csvVars, normVars, extVars>>

\* the end of parse_fallback_format: the last operation is finalized
ParseFallbackReturn ==
    /\ moa_pc = "fallback" /\ moa_i > Len(moa_table)
    /\ IF moa_cur # <<>>
       THEN /\ moa_ops' = moa_ops \o FinalizeOperation(moa_cur[1], moa_source)
            /\ moa_block' = [pass |-> "fallback", securities |-> moa_cur[1].securities,
                             amounts |-> Len(moa_cur[1].amounts),
                             matched |-> moa_cur[1].amounts,
                             individual |-> moa_cur[1].amounts,
                             records |-> FinalizeOperation(moa_cur[1], moa_source),
                             text |-> <<>>, type |-> moa_cur[1].type,
                             blocks |-> moa_block.blocks]
       ELSE UNCHANGED <<moa_ops, moa_block>>
    /\ moa_pc' = "done"
    /\ UNCHANGED <<moa_text, moa_source, moa_i, moa_table, moa_cur>>
    /\ UNCHANGED <<dateVars, csvVars, normVars, extVars>>

SpecMOA ==
    InitMoa /\ [][ParseTabularData \/ ParseExactFormat \/ ParseExactReturn
                    \/ ParseFallbackRow \/ ParseFallbackReturn]_vars

-----------------------------------------------------------------------------
(***************************************************************************)
(* Further properties of the release-date resolver and the TOA builders.   *)
(***************************************************************************)

\* C11: the step that applies a resolved release date to a batch
\* (apply_release_date_to_operations, fetch_csv_direct, scrape_with_browser)
\* leaves every record of the batch with the same release_date, the resolved
\* one, changes no other field, and adds or removes no record.
C11_UniformBatchReleaseDate ==
    [][(outcome = "running" /\ outcome' = "returned"
          /\ path \in {"csv", "browser", "pdf"})
       => /\ operations' # <<>>
          /\ \A i \in DOMAIN operations' :
               operations'[i].release_date = release_date'
          /\ IF pc = "table"
             \* the rows were read from the table in this step
             THEN [i \in DOMAIN operations' |->
                     [operations'[i] EXCEPT !.release_date = 0]] \in RecLists
             ELSE /\ DOMAIN operations' = DOMAIN operations
                  /\ \A i \in DOMAIN operations :
                       operations'[i] =
                         [operations[i] EXCEPT !.release_date = release_date']]_vars

\* C11 witness: a batch of two different records, both stamped with the
\* date the direct fetch found
C11_Witness ==
    /\ pc = "done" /\ outcome = "returned" /\ path = "csv" /\ source = "web"
    /\ Len(operations) = 2
    /\ operations[1].operation_date # operations[2].operation_date
    /\ operations[1].release_date = release_date
    /\ operations[2].release_date = release_date

-----------------------------------------------------------------------------
(***************************************************************************)
(* One parser instance used for several documents: CombinedFRBNYScraper    *)
(* (parse_pdf_fallback appends to self.data) and EnhancedFRBNYParser       *)
(* (parse_pdf_content starts from self.data = []).                         *)
(***************************************************************************)
MaxDocs == 2        \* calls made on one instance

\* the documents: PDFs of up to MaxPages pages with one row or line a page
Documents ==
    LET P == {pg \in PdfPages : Len(pg.rows) <= 1} IN
    {<<>>} \cup UNION {[1..n -> P] : n \in 1..MaxPages}

\* the page loop stops at a page that raises: pdfplumber failing, or the
\* KeyError of calculate_release_date
PageRaises(cls, pg, t) ==
    \/ pg.kind = "error"
    \/ /\ cls = "enhanced"
       /\ \E k \in DOMAIN EnhancedPageOperations(pg, t) :
            EnhancedPageOperations(pg, t)[k].release_date = KeyError

\* the records the page loop appends to self.data from page i on
RECURSIVE DocumentOperations(_, _, _, _)
DocumentOperations(cls, pages, i, t) ==
    IF i > Len(pages) \/ PageRaises(cls, pages[i], t) THEN <<>>
    ELSE (IF cls = "combined" THEN PdfPageOperations(pages[i])
          ELSE EnhancedPageOperations(pages[i], t))
         \o DocumentOperations(cls, pages, i + 1, t)

\* the values calculate_dataset_release_date(operations, None) can return:
\* a reasonable date of the direct fetch or of the markup parse, else the
\* maximum operation date, else the current date
CalculateDatasetReleaseDate(ops, t) ==
    {r \in {WebSimpleAttempt(p, t) : p \in Pages}
             \cup {BeautifulSoupResult(p) : p \in Pages} :
        r # 0 /\ IsReasonableReleaseDate(r, t)}
      \cup {IF MaxOperationDate(ops) # NoDate
            THEN Strftime(MaxOperationDate(ops)) ELSE CurrentDate(t)}

InitDocs ==
    /\ today = Date(2026, 11, 3)
    /\ DateIdle /\ MoaIdle /\ CsvIdle /\ NormIdle
    /\ csvd_columns = <<>> /\ csvd_rows = <<>> /\ csvd_mapping = <<>>
    /\ csvd_i = 0 /\ csvd_data = <<>>
    /\ csvd_parsed = <<>> /\ csvd_pc = "idle"
    /\ web_log = <<>>
    /\ run = [pc |-> "idle", pdf_path |-> FALSE, data |-> <<>>,
              source_type |-> "none", tried |-> <<>>,
              got |-> [csv |-> <<>>, browser |-> <<>>, pdf |-> <<>>],
              result |-> "none"]
    /\ pdf_table = [pc |-> "idle", parser |-> "none", table |-> <<>>, i |-> 0,
                    operations |-> <<>>, firsts |-> <<>>]
    \* CombinedFRBNYScraper() or EnhancedFRBNYParser(logger): self.data = []
    /\ doc_parser \in {"combined", "enhanced"}
    /\ doc_data = <<>> /\ doc_own = <<>>
    /\ doc_ret = [kind |-> "none", recs |-> <<>>] /\ doc_calls = 0

\* CombinedFRBNYScraper.parse_pdf_fallback(pdf_path), the whole call
ParsePdfFallback ==
    /\ doc_parser = "combined" /\ doc_calls < MaxDocs
    /\ doc_calls' = doc_calls + 1
    /\ \E exists \in BOOLEAN, pages \in Documents :
         LET own == DocumentOperations("combined", pages, 1, today)
             raised == \E i \in DOMAIN pages : PageRaises("combined", pages[i], today)
         IN  IF ~exists
             THEN /\ doc_ret' = [kind |-> "none", recs |-> <<>>]
                  /\ doc_own' = <<>> /\ doc_data' = doc_data
             ELSE IF raised
             THEN /\ doc_ret' = [kind |-> "none", recs |-> <<>>]
                  /\ doc_own' = own /\ doc_data' = doc_data \o own
             ELSE IF doc_data \o own = <<>>
             THEN /\ doc_ret' = [kind |-> "list", recs |-> <<>>]
                  /\ doc_own' = <<>> /\ doc_data' = <<>>
             ELSE \E rd \in CalculateDatasetReleaseDate(doc_data \o own, today) :
                  /\ doc_data' = Stamp(doc_data \o own, rd)
                  /\ doc_own' = Stamp(own, rd)
                  /\ doc_ret' = [kind |-> "list", recs |-> doc_data']
    /\ UNCHANGED <<doc_parser, csvd_columns, csvd_rows, csvd_mapping, csvd_i,
                   csvd_data, csvd_parsed, csvd_pc>>
    /\ UNCHANGED <<dateVars, moaVars, csvVars, normVars, web_log, run, pdf_table>>

\* EnhancedFRBNYParser.parse_pdf_content(pdf_content, pdf_url), the whole call
ParsePdfContent ==
    /\ doc_parser = "enhanced" /\ doc_calls < MaxDocs
    /\ doc_calls' = doc_calls + 1
    /\ \E pages \in Documents :
         LET own == DocumentOperations("enhanced", pages, 1, today)
             raised == \E i \in DOMAIN pages : PageRaises("enhanced", pages[i], today)
         IN  /\ doc_data' = own
             /\ doc_own' = own
             /\ doc_ret' = [kind |-> "list", recs |-> IF raised THEN <<>> ELSE own]
    /\ UNCHANGED <<doc_parser, csvd_columns, csvd_rows, csvd_mapping, csvd_i,
                   csvd_data, csvd_parsed, csvd_pc>>
    /\ UNCHANGED <<dateVars, moaVars, csvVars, normVars, web_log, run, pdf_table>>

SpecDocs == InitDocs /\ [][ParsePdfFallback \/ ParsePdfContent]_vars

\* C12: the list a parse call returns holds the records of that call's own
\* document and no record of a document the instance parsed before.
C12_NoMixingAcrossDocuments ==
    doc_ret.kind = "list" => \A i \in DOMAIN doc_ret.recs :
                               \E j \in DOMAIN doc_own : doc_ret.recs[i] = doc_own[j]

-----------------------------------------------------------------------------
(***************************************************************************)
(* Further properties of the MOA record builder.                           *)
(***************************************************************************)

\* C13: of the k amounts matched in a block of the structured pass, the
\* individual amounts are all of them when k <= 2, and for k > 2 all of them
\* in order without the largest value, unless the largest value occurs more
\* than once, in which case every amount is kept; were the list left empty,
\* it would be all amounts but the last.
C13_IndividualAmounts ==
    moa_block.pass = "exact"
      => LET v == [i \in DOMAIN moa_block.matched |-> Decimal(moa_block.matched[i])]
             k == Len(v)
             expected ==
                 IF k <= 2 THEN v
                 ELSE LET at == {i \in 1..k : \A j \in 1..k : v[j] <= v[i]}
                          p == CHOOSE i \in at : TRUE
                          removed == IF Cardinality(at) > 1 THEN v
                                     ELSE SubSeq(v, 1, p - 1) \o SubSeq(v, p + 1, k)
                      IN  IF removed = <<>> THEN SubSeq(v, 1, k - 1) ELSE removed
         IN  moa_block.individual = [i \in DOMAIN expected |-> ToDigits(expected[i])]

\* C13 witness: a block with five amounts whose largest value occurs twice,
\* all five kept
C13_Witness ==
    /\ moa_block.pass = "exact"
    /\ Len(moa_block.matched) = 5
    /\ moa_block.matched[2] = moa_block.matched[4]
    /\ Decimal(moa_block.matched[2]) > Decimal(moa_block.matched[1])
    /\ Len(moa_block.individual) = 5

\* C14: in the structured pass and in the fallback pass, the
\* OperationMaximum of every record of a block is the largest of all the
\* amounts matched in the block, "$0 Million" when none was matched,
\* whatever the individual amounts are.
C14_OperationMaximum ==
    moa_block.pass # "none"
      => \A r \in DOMAIN moa_block.records :
           LET v == [i \in DOMAIN moa_block.matched |-> Decimal(moa_block.matched[i])]
               maximum == moa_block.records[r].OperationMaximum
           IN  IF v = <<>> THEN maximum = <<"0">>
               ELSE \E i \in DOMAIN v : /\ \A j \in DOMAIN v : v[j] <= v[i]
                                        /\ maximum = ToDigits(v[i])

\* C14 witness: the structured pass removed the largest of three amounts
\* from the individual amounts, and the record carries it as the maximum
C14_Witness ==
    /\ moa_block.pass = "exact"
    /\ Len(moa_block.matched) = 3 /\ Len(moa_block.individual) = 2
    /\ moa_block.records # <<>>
    /\ moa_block.records[1].OperationMaximum = <<"5", "0">>
    /\ moa_block.records[1].SecurityMaximums = <<"2", "4">>

\* C15: in both passes, when a block has as many individual amounts as
\* securities, the record of security i carries individual amount i;
\* otherwise it carries individual amount i when there is one and the
\* operation maximum of the block when there is none, so that three
\* securities with one amount give three records that each carry the
\* operation maximum.
C15_SecurityAmountPairing ==
    (moa_block.pass # "none" /\ moa_block.securities # <<>>)
      => LET n == Len(moa_block.securities)
             m == Len(moa_block.individual)
             recs == moa_block.records
         IN  /\ Len(recs) = n
             /\ n = m => \A i \in 1..n :
                           recs[i].SecurityMaximums = moa_block.individual[i]
             /\ n # m => \A i \in 1..n :
                           recs[i].SecurityMaximums =
                             IF i <= m THEN moa_block.individual[i]
                             ELSE recs[i].OperationMaximum
             /\ (n = 3 /\ Len(moa_block.matched) = 1)
                  => \A i \in 1..3 :
                       /\ recs[i].SecurityMaximums = recs[i].OperationMaximum
                       /\ recs[i].OperationMaximum = ToDigits(Decimal(moa_block.matched[1]))

\* C15 witness: the structured pass paired three securities with two
\* individual amounts; the third security carries the operation maximum
C15_Witness ==
    /\ moa_block.pass = "exact"
    /\ Len(moa_block.securities) = 3 /\ Len(moa_block.individual) = 2
    /\ Len(moa_block.records) = 3
    /\ moa_block.records[1].SecurityMaximums = moa_block.individual[1]
    /\ moa_block.records[3].SecurityMaximums = <<"5", "0">>
    /\ moa_block.records[3].SecurityMaximums # moa_block.individual[2]

-----------------------------------------------------------------------------
(***************************************************************************)
(* process_csv_data of CombinedFRBNYScraper on one DataFrame, with the     *)
(* parse of the Maximum Operation Size column.  A cell is a string or      *)
(* <<"NaN">>, the missing value of pandas.                                 *)
(***************************************************************************)
\* str.lower()
Lower(s) ==
    [i \in DOMAIN s |->
        IF IsIn(s[i], UpperCase)
        THEN LowerCase[CHOOSE j \in DOMAIN UpperCase : UpperCase[j] = s[i]]
        ELSE s[i]]

\* the end of a run of a regular expression: the first index from i on
\* whose character is outside chars (inside = TRUE) or in chars (inside =
\* FALSE), Len(s) + 1 when there is none
RECURSIVE Span(_, _, _, _)
Span(s, i, chars, inside) ==
    IF i > Len(s) \/ (s[i] \in chars) # inside THEN i
    ELSE Span(s, i + 1, chars, inside)

\* a parser that leaves the size as the matched text and the magnitude word
\* in the letter case of the input
ParseWithoutConversion(max_op_size) ==
    LET text == Strip(max_op_size)
        digit == {"0", "1", "2", "3", "4", "5", "6", "7", "8", "9"}
        start == Span(text, 1, digit \cup {".", ","}, FALSE)
        stop == Span(text, start, digit \cup {".", ","}, TRUE)
    IN  [currency |-> SubSeq(text, 1, Span(text, 1, digit \cup Whitespace, FALSE) - 1),
         size |-> StrVal(SubSeq(text, start, stop - 1)),
         multiplier |-> SubSeq(text, Span(text, stop, Whitespace, TRUE), Len(text))]

\* parse_maximum_operation_size(max_op_size): (currency, size, multiplier).
\* The size is '', an int, a float (n: the whole part, s: the fractional
\* digits without trailing zeros), or the matched text when float() raises.
ParseMaximumOperationSize(max_op_size) ==
    LET text == Strip(max_op_size)
        low == Lower(text)
        digit == {"0", "1", "2", "3", "4", "5", "6", "7", "8", "9"}
        \* re.match(r'^([^\d\s]+)', max_op_size)
        currency == SubSeq(text, 1, Span(text, 1, digit \cup Whitespace, FALSE) - 1)
        \* re.search(r'([0-9.,]+)\s*(million|billion|trillion|thousand)?', max_op_size.lower())
        start == Span(low, 1, digit \cup {".", ","}, FALSE)
        stop == Span(low, start, digit \cup {".", ","}, TRUE)
        rest == SubSeq(low, Span(low, stop, Whitespace, TRUE), Len(low))
        multiplier ==
            IF StartsWith(rest, <<"m", "i", "l", "l", "i", "o", "n">>) THEN <<"m", "i", "l", "l", "i", "o", "n">>
            ELSE IF StartsWith(rest, <<"b", "i", "l", "l", "i", "o", "n">>) THEN <<"b", "i", "l", "l", "i", "o", "n">>
            ELSE IF StartsWith(rest, <<"t", "r", "i", "l", "l", "i", "o", "n">>) THEN <<"t", "r", "i", "l", "l", "i", "o", "n">>
            ELSE IF StartsWith(rest, <<"t", "h", "o", "u", "s", "a", "n", "d">>) THEN <<"t", "h", "o", "u", "s", "a", "n", "d">>
            ELSE <<>>
        size_text == SubSeq(low, start, stop - 1)
        \* float(size.replace(',', ''))
        cleaned == RemoveCommas(size_text)
        dot == Span(cleaned, 1, {"."}, FALSE)
        is_float == /\ Span(cleaned, dot + 1, {"."}, FALSE) > Len(cleaned)
                    /\ Len(cleaned) > (IF dot <= Len(cleaned) THEN 1 ELSE 0)
        whole == Decimal(SubSeq(cleaned, 1, dot - 1))
        \* the digits after the point, trailing zeros removed
        decimals == LET d == SubSeq(cleaned, dot + 1, Len(cleaned))
                        RECURSIVE Trim(_)
                        Trim(x) == IF x # <<>> /\ x[Len(x)] = "0"
                                   THEN Trim(SubSeq(x, 1, Len(x) - 1)) ELSE x
                    IN  Trim(d)
        size == IF ~is_float THEN StrVal(size_text)
                \* size_float.is_integer()
                ELSE IF decimals = <<>> THEN [t |-> "int", s |-> <<>>, n |-> whole]
                ELSE [t |-> "float", s |-> decimals, n |-> whole]
    IN  IF text = <<>>
        THEN [currency |-> <<>>, size |-> StrVal(<<>>), multiplier |-> <<>>]
        ELSE IF start > Len(low)
        THEN [currency |-> currency, size |-> StrVal(<<>>), multiplier |-> <<>>]
        ELSE [currency |-> currency, size |-> size, multiplier |-> multiplier]

\* the operation the row loop builds from one row: a later column mapped to
\* the same expected name overwrites an earlier one
CsvOperation(mapping, row) ==
    LET keys == <<"OPERATION DATE", "OPERATION TIME (ET)", "SETTLEMENT DATE",
                  "OPERATION TYPE", "SECURITY TYPE AND MATURITY", "MATURITY RANGE">>
        \* str(row[csv_col]).strip() if pd.notna(row[csv_col]) else ''
        field(k) ==
            IF \E i \in DOMAIN mapping : mapping[i] = k
            THEN LET col == CHOOSE i \in DOMAIN mapping :
                                mapping[i] = k /\ \A j \in (i + 1)..Len(mapping) : mapping[j] # k
                 IN  IF row[col] # <<"NaN">> THEN Strip(row[col]) ELSE <<>>
            ELSE <<"unmapped">>
    IN  [k \in {keys[j] : j \in DOMAIN keys}
                 \cup {"MAXIMUM OPERATION CURRENCY", "MAXIMUM OPERATION SIZE",
                       "MAXIMUM OPERATION MULTIPLIER", "release_date"} |->
            IF \E j \in DOMAIN keys : keys[j] = k
            THEN LET v == field(CHOOSE j \in DOMAIN keys : keys[j] = k)
                 IN  StrVal(IF v = <<"unmapped">> THEN <<>> ELSE v)
            ELSE IF k = "release_date" \/ field(7) = <<"unmapped">> THEN StrVal(<<>>)
            ELSE IF k = "MAXIMUM OPERATION CURRENCY"
            THEN StrVal(ParseMaximumOperationSize(field(7)).currency)
            ELSE IF k = "MAXIMUM OPERATION SIZE"
            THEN ParseMaximumOperationSize(field(7)).size
            ELSE StrVal(ParseMaximumOperationSize(field(7)).multiplier)]

InitCsvData ==
    /\ today = Date(2026, 11, 3)
    /\ DateIdle /\ MoaIdle /\ CsvIdle /\ NormIdle
    /\ doc_parser = "none" /\ doc_data = <<>> /\ doc_own = <<>>
    /\ doc_ret = [kind |-> "none", recs |-> <<>>] /\ doc_calls = 0
    \* the header of the CSV: the date column, the type column under its
    \* name, another name or a longer name, and the size column
    /\ csvd_columns \in
         {<<c1, c2, <<"M", "a", "x", "i", "m", "u", "m", " ", "O", "p", "e", "r", "a", "t", "i", "o", "n", " ", "S", "i", "z", "e">>>> :
            c1 \in {<<"O", "p", "e", "r", "a", "t", "i", "o", "n", " ", "D", "a", "t", "e">>, <<" ", "O", "P", "E", "R", "A", "T", "I", "O", "N", " ", "D", "A", "T", "E">>},
            c2 \in {<<"O", "p", "e", "r", "a", "t", "i", "o", "n", " ", "T", "y", "p", "e">>, <<"T", "y", "p", "e">>, <<"O", "p", "e", "r", "a", "t", "i", "o", "n", " ", "T", "y", "p", "e", " ", "(", "C", "o", "d", "e", ")">>}}
    \* the rows: a cell for the date, the type and the size
    /\ csvd_rows \in
         LET Rows ==
               {<<<<"6", "/", "2", "0", "/", "2", "0", "2", "6">>, <<"P", "u", "r", "c", "h", "a", "s", "e">>, <<"$", "5", "0", " ", "m", "i", "l", "l", "i", "o", "n">>>>,
                <<<<"6", "/", "2", "1", "/", "2", "0", "2", "6">>, <<"NaN">>, <<"$", "1", ".", "5", " ", "B", "i", "l", "l", "i", "o", "n">>>>,
                <<<<"NaN">>, <<"S", "a", "l", "e">>, <<"$", "5", ".", "0", " ", "m", "i", "l", "l", "i", "o", "n">>>>,
                <<<<"6", "/", "2", "2", "/", "2", "0", "2", "6">>, <<"S", "a", "l", "e">>, <<"$", "2", ".", "5", "0", " ", "T", "H", "O", "U", "S", "A", "N", "D">>>>,
                <<<<" ">>, <<"P", "u", "r", "c", "h", "a", "s", "e">>, <<"NaN">>>>,
                <<<<"6", "/", "2", "3", "/", "2", "0", "2", "6">>, <<" ", " ">>, <<"$", "1", ",", "5", "0", "0", " ", "M", "i", "l", "l", "i", "o", "n">>>>,
                <<<<"6", "/", "2", "4", "/", "2", "0", "2", "6">>, <<"P", "u", "r", "c", "h", "a", "s", "e">>, <<"T", "B", "D">>>>,
                <<<<"6", "/", "2", "5", "/", "2", "0", "2", "6">>, <<"S", "a", "l", "e">>, <<" ", "$", "7", "5", " ", "T", "r", "i", "l", "l", "i", "o", "n", " ">>>>}
         IN  {<<>>} \cup UNION {[1..n -> Rows] : n \in 1..MaxRows}
    /\ csvd_mapping = <<>> /\ csvd_i = 1 /\ csvd_data = <<>>
    /\ csvd_parsed = <<>> /\ csvd_pc = "columns"
    /\ web_log = <<>>
    /\ run = [pc |-> "idle", pdf_path |-> FALSE, data |-> <<>>,
              source_type |-> "none", tried |-> <<>>,
              got |-> [csv |-> <<>>, browser |-> <<>>, pdf |-> <<>>],
              result |-> "none"]
    /\ pdf_table = [pc |-> "idle", parser |-> "none", table |-> <<>>, i |-> 0,
                    operations |-> <<>>, firsts |-> <<>>]

\* process_csv_data: the loop over df.columns that builds column_mapping
ProcessCsvDataColumns ==
    /\ csvd_pc = "columns"
    /\ LET expected_columns ==
               <<<<"O", "p", "e", "r", "a", "t", "i", "o", "n", " ", "D", "a", "t", "e">>, <<"O", "p", "e", "r", "a", "t", "i", "o", "n", " ", "T", "i", "m", "e", " ", "(", "E", "T", ")">>, <<"S", "e", "t", "t", "l", "e", "m", "e", "n", "t", " ", "D", "a", "t", "e">>,
                 <<"O", "p", "e", "r", "a", "t", "i", "o", "n", " ", "T", "y", "p", "e">>, <<"S", "e", "c", "u", "r", "i", "t", "y", " ", "T", "y", "p", "e", " ", "a", "n", "d", " ", "M", "a", "t", "u", "r", "i", "t", "y">>, <<"M", "a", "t", "u", "r", "i", "t", "y", " ", "R", "a", "n", "g", "e">>,
                 <<"M", "a", "x", "i", "m", "u", "m", " ", "O", "p", "e", "r", "a", "t", "i", "o", "n", " ", "S", "i", "z", "e">>>>
           Without(s, chars) == SelectSeq(s, LAMBDA c : c \notin chars)
           Matches(col, expected) ==
               \/ Without(Lower(Strip(col)), {" "}) = Without(Lower(expected), {" "})
               \/ Contains(Without(Lower(Strip(col)), {" ", "(", ")"}),
                           Without(Lower(expected), {" ", "(", ")"}))
           RECURSIVE First(_, _)
           First(col, k) == IF k > Len(expected_columns) THEN 0
                            ELSE IF Matches(col, expected_columns[k]) THEN k
                            ELSE First(col, k + 1)
       IN  \* column_mapping: for every column of the DataFrame the index in
           \* expected_columns of the first expected name it matches, 0 for none
           csvd_mapping' = [i \in DOMAIN csvd_columns |-> First(csvd_columns[i], 1)]
    /\ csvd_pc' = "rows"
    /\ UNCHANGED <<doc_parser, doc_data, doc_own, doc_ret, doc_calls,
                   csvd_columns, csvd_rows, csvd_i, csvd_data, csvd_parsed>>
    /\ UNCHANGED <<dateVars, moaVars, csvVars, normVars, web_log, run, pdf_table>>

\* a row loop that keeps every row with a date, whatever its type
ProcessCsvDataRowDateOnly ==
    /\ csvd_pc = "rows" /\ csvd_i <= Len(csvd_rows)
    /\ LET operation == CsvOperation(csvd_mapping, csvd_rows[csvd_i])
       IN  csvd_data' = IF operation["OPERATION DATE"].s # <<>>
                        THEN Append(csvd_data, operation) ELSE csvd_data
    /\ csvd_i' = csvd_i + 1
    /\ UNCHANGED <<doc_parser, doc_data, doc_own, doc_ret, doc_calls,
                   csvd_columns, csvd_rows, csvd_mapping, csvd_parsed, csvd_pc>>
    /\ UNCHANGED <<dateVars, moaVars, csvVars, normVars, web_log, run, pdf_table>>

\* process_csv_data: one pass of "for _, row in df.iterrows()"
ProcessCsvDataRow ==
    /\ csvd_pc = "rows" /\ csvd_i <= Len(csvd_rows)
    /\ LET row == csvd_rows[csvd_i]
           operation == CsvOperation(csvd_mapping, row)
           sized == {i \in DOMAIN csvd_mapping : csvd_mapping[i] = 7}
           col == CHOOSE i \in sized : \A j \in sized : j <= i
           cell == IF row[col] # <<"NaN">> THEN Strip(row[col]) ELSE <<>>
       IN  /\ csvd_data' =
                IF operation["OPERATION DATE"].s # <<>> /\ operation["OPERATION TYPE"].s # <<>>
                THEN Append(csvd_data, operation) ELSE csvd_data
           /\ csvd_parsed' =
                IF sized = {} THEN csvd_parsed
                ELSE <<[input |-> cell,
                        currency |-> operation["MAXIMUM OPERATION CURRENCY"].s,
                        size |-> operation["MAXIMUM OPERATION SIZE"],
                        multiplier |-> operation["MAXIMUM OPERATION MULTIPLIER"].s]>>
    /\ csvd_i' = csvd_i + 1
    /\ UNCHANGED <<doc_parser, doc_data, doc_own, doc_ret, doc_calls,
                   csvd_columns, csvd_rows, csvd_mapping, csvd_pc>>
    /\ UNCHANGED <<dateVars, moaVars, csvVars, normVars, web_log, run, pdf_table>>

\* process_csv_data: "return processed_data" after the loop
ProcessCsvDataReturn ==
    /\ csvd_pc = "rows" /\ csvd_i > Len(csvd_rows)
    /\ csvd_pc' = "returned"
    /\ UNCHANGED <<doc_parser, doc_data, doc_own, doc_ret, doc_calls,
                   csvd_columns, csvd_rows, csvd_mapping, csvd_i, csvd_data,
                   csvd_parsed>>
    /\ UNCHANGED <<dateVars, moaVars, csvVars, normVars, web_log, run, pdf_table>>

SpecCsvData ==
    InitCsvData /\ [][ProcessCsvDataColumns \/ ProcessCsvDataRow
                        \/ ProcessCsvDataReturn]_vars
\* ---------------------------------------------------------------------
\* Properties of process_csv_data and parse_maximum_operation_size
\* ---------------------------------------------------------------------

\* C16: process_csv_data outputs a record for a row if and only if both its
\* operation date and its operation type are non-empty after column mapping:
\* the output is, in order, the rows read so far whose date cell and type
\* cell are mapped, present and not blank; a row that is left out does not
\* stop the loop, which returns only after the last row.
C16_CsvRowFilter ==
    LET Populated(row, k) ==
            \E c \in DOMAIN csvd_mapping :
                /\ csvd_mapping[c] = k
                /\ \A later \in (c + 1)..Len(csvd_mapping) : csvd_mapping[later] # k
                /\ row[c] # <<"NaN">>
                /\ Strip(row[c]) # <<>>
        Cell(row, k) == Strip(row[CHOOSE c \in DOMAIN csvd_mapping :
                                    /\ csvd_mapping[c] = k
                                    /\ \A later \in (c + 1)..Len(csvd_mapping) :
                                            csvd_mapping[later] # k])
        read == SubSeq(csvd_rows, 1, csvd_i - 1)
        kept == SelectSeq(read, LAMBDA row : Populated(row, 1) /\ Populated(row, 4))
    IN  /\ csvd_pc \in {"rows", "returned"} =>
            /\ Len(csvd_data) = Len(kept)
            /\ \A n \in DOMAIN kept :
                    /\ csvd_data[n]["OPERATION DATE"].s = Cell(kept[n], 1)
                    /\ csvd_data[n]["OPERATION TYPE"].s = Cell(kept[n], 4)
        /\ csvd_pc = "returned" => csvd_i = Len(csvd_rows) + 1

\* a row with a date and no type was left out and the row after it is in
\* the output
C16_Witness ==
    /\ csvd_pc = "returned"
    /\ Len(csvd_rows) = 2
    /\ csvd_mapping = <<1, 4, 7>>
    /\ csvd_rows[1][1] = <<"6", "/", "2", "1", "/", "2", "0", "2", "6">> /\ csvd_rows[1][2] = <<"NaN">>
    /\ Len(csvd_data) = 1
    /\ csvd_data[1]["OPERATION DATE"].s = Strip(csvd_rows[2][1])

\* C19 as stated: for every well-formed '$<int|float> <unit>' the size is a
\* number and currency + size + ' ' + unit equals the input, letter case
\* aside.
C19_RoundTripAsStated ==
    \A k \in DOMAIN csvd_parsed :
        LET p == csvd_parsed[k]
            inp == p.input
            spaces == {i \in DOMAIN inp : inp[i] = " "}
            sp == CHOOSE i \in spaces : TRUE
            num == SubSeq(inp, 2, sp - 1)
            unit == SubSeq(inp, sp + 1, Len(inp))
            dots == {i \in DOMAIN num : num[i] = "."}
            dot == CHOOSE i \in dots : TRUE
            DigitsOnly(x) == x # <<>> /\ \A i \in DOMAIN x : IsIn(x[i], Digits)
            WellFormed ==
                /\ inp # <<>> /\ inp[1] = "$"
                /\ Cardinality(spaces) = 1
                /\ Cardinality(dots) <= 1
                /\ IF dots = {} THEN DigitsOnly(num)
                   ELSE /\ DigitsOnly(SubSeq(num, 1, dot - 1))
                        /\ DigitsOnly(SubSeq(num, dot + 1, Len(num)))
                /\ Lower(unit) \in {<<"m", "i", "l", "l", "i", "o", "n">>, <<"b", "i", "l", "l", "i", "o", "n">>, <<"t", "r", "i", "l", "l", "i", "o", "n">>, <<"t", "h", "o", "u", "s", "a", "n", "d">>}
            RECURSIVE Str(_)
            Str(n) == IF n < 10 THEN <<Digits[n + 1]>>
                      ELSE Str(n \div 10) \o <<Digits[(n % 10) + 1]>>
            printed == IF p.size.t = "int" THEN Str(p.size.n)
                       ELSE Str(p.size.n) \o <<".">> \o p.size.s
        IN  WellFormed =>
                /\ p.size.t \in {"int", "float"}
                /\ p.currency \o printed \o <<" ">> \o p.multiplier = Lower(inp)

\* C19: for every well-formed '$<int|float> <unit>' the currency is '$', the
\* unit is the magnitude word in lower case, the size is a number of the
\* value the input writes (an int when the fractional digits are absent or
\* all zero, else a float), and currency + size + ' ' + unit equals the
\* input, letter case aside, when the input writes its number without a
\* leading zero and without a trailing fractional zero.
C19_AmountParsing ==
    \A k \in DOMAIN csvd_parsed :
        LET p == csvd_parsed[k]
            inp == p.input
            spaces == {i \in DOMAIN inp : inp[i] = " "}
            sp == CHOOSE i \in spaces : TRUE
            num == SubSeq(inp, 2, sp - 1)
            unit == SubSeq(inp, sp + 1, Len(inp))
            dots == {i \in DOMAIN num : num[i] = "."}
            dot == CHOOSE i \in dots : TRUE
            whole == IF dots = {} THEN num ELSE SubSeq(num, 1, dot - 1)
            fraction == IF dots = {} THEN <<>> ELSE SubSeq(num, dot + 1, Len(num))
            DigitsOnly(x) == x # <<>> /\ \A i \in DOMAIN x : IsIn(x[i], Digits)
            WellFormed ==
                /\ inp # <<>> /\ inp[1] = "$"
                /\ Cardinality(spaces) = 1
                /\ Cardinality(dots) <= 1
                /\ DigitsOnly(whole)
                /\ dots # {} => DigitsOnly(fraction)
                /\ Lower(unit) \in {<<"m", "i", "l", "l", "i", "o", "n">>, <<"b", "i", "l", "l", "i", "o", "n">>, <<"t", "r", "i", "l", "l", "i", "o", "n">>, <<"t", "h", "o", "u", "s", "a", "n", "d">>}
            AsPrinted ==
                /\ whole = <<"0">> \/ whole[1] # "0"
                /\ dots # {} => fraction[Len(fraction)] # "0"
            RECURSIVE Str(_)
            Str(n) == IF n < 10 THEN <<Digits[n + 1]>>
                      ELSE Str(n \div 10) \o <<Digits[(n % 10) + 1]>>
            printed == IF p.size.t = "int" THEN Str(p.size.n)
                       ELSE Str(p.size.n) \o <<".">> \o p.size.s
        IN  WellFormed =>
                /\ p.currency = <<"$">>
                /\ p.multiplier = Lower(unit)
                /\ p.size.t \in {"int", "float"}
                /\ p.size.n = Decimal(whole)
                /\ \E m \in 0..Len(fraction) :
                        /\ p.size.s = SubSeq(fraction, 1, m)
                        /\ \A j \in (m + 1)..Len(fraction) : fraction[j] = "0"
                        /\ m > 0 => fraction[m] # "0"
                /\ p.size.t = "int" <=> p.size.s = <<>>
                /\ AsPrinted =>
                        p.currency \o printed \o <<" ">> \o p.multiplier = Lower(inp)

\* '$2.50 THOUSAND' was parsed: a float of two and a half, in thousands
C19_Witness ==
    /\ csvd_parsed # <<>>
    /\ csvd_parsed[1].input = <<"$", "2", ".", "5", "0", " ", "T", "H", "O", "U", "S", "A", "N", "D">>
    /\ csvd_parsed[1].size = [t |-> "float", s |-> <<"5">>, n |-> 2]
    /\ csvd_parsed[1].multiplier = <<"t", "h", "o", "u", "s", "a", "n", "d">>
\* ---------------------------------------------------------------------
\* Further properties of the release-date resolver and of the runs
\* ---------------------------------------------------------------------

\* C17: when the direct fetch, the markup parse and the interactive session
\* gave no valid date range and a record holds a parseable operation or
\* settlement date, the release date returned is the maximum such date as
\* YYYYMMDD, with or without a browser handle and on the CSV path too; the
\* current date is returned only when no record holds a parseable date.
C17_MaxDateFallback ==
    (pc = "done" /\ path \in {"calc", "csv"} /\ outcome = "returned"
        /\ cand.web = 0 /\ cand.bs = 0 /\ cand.browser = 0)
    => IF MaxOperationDate(operations) # NoDate
       THEN release_date = Strftime(MaxOperationDate(operations))
       ELSE release_date = CurrentDate(today)
\* C18: a run whose browser handle cannot be acquired at all ends in an
\* exception raised to the caller, not in an empty or None result, and no
\* other failure ends a run in an exception.
C18_SetupFailurePropagated ==
    /\ (pc = "done" /\ path \in {"browser", "full"} /\ acquired = 0)
         => outcome = "raised"
    /\ outcome = "raised" => (path \in {"browser", "full"} /\ acquired = 0)
\* C20: extract_release_date_from_web_simple makes at most 5 requests; the
\* first is made at once and the second to the fifth after sleeps of 30, 45,
\* 60 and 75 seconds; an attempt that gives no date, whatever the reason, is
\* followed by the next one; the first attempt that gives a date ends the
\* call with that date; after the fifth failed attempt the call returns no
\* date, and no exception leaves it.
C20_RetryBound ==
    LET n == Len(web_log) IN
    /\ n <= 5
    /\ \A i \in 1..n : web_log[i].wait = <<0, 30, 45, 60, 75>>[i]
    /\ \A i \in 1..(n - 1) : web_log[i].result = 0
    /\ pc = "web" => (n < 5 /\ n = attempt - 1)
    /\ pc = "web_ret" =>
            /\ n >= 1
            /\ release_date = web_log[n].result
            /\ release_date = 0 => n = 5
    /\ pc \in {"web", "web_ret"} => outcome = "running"

\* five attempts failed, the last after a sleep of 75 seconds, and the call
\* returned no date
C20_Witness ==
    /\ pc = "web_ret"
    /\ Len(web_log) = 5
    /\ web_log[5] = [wait |-> 75, result |-> 0]
    /\ release_date = 0
\* ---------------------------------------------------------------------
\* Further properties of the MOA record builder: securities, blocks, types
\* ---------------------------------------------------------------------

\* C21: the known-ticker pass gives the distinct 'TICKER RATE' pairs in the
\* order in which they appear in the text of the block; the general-ticker
\* pass runs only if it found nothing, and the contextual pass only if both
\* found nothing.
C21_SecurityPasses ==
    moa_block.pass = "exact"
      => LET toks == moa_block.text
             KnownAt(i) ==
                 /\ toks[i + 1].k = "rate"
                 /\ \E k \in DOMAIN KnownTickers :
                        EndsWith(Upper(TokText(toks[i])), KnownTickers[k])
             PairAt(i) ==
                 Security(KnownTickers[CHOOSE k \in DOMAIN KnownTickers :
                                           EndsWith(Upper(TokText(toks[i])), KnownTickers[k])],
                          toks[i + 1].s)
             RECURSIVE InOrder(_, _)
             InOrder(i, acc) ==
                 IF i >= Len(toks) THEN acc
                 ELSE InOrder(i + 1,
                              IF KnownAt(i) /\ \A n \in DOMAIN acc : acc[n] # PairAt(i)
                              THEN Append(acc, PairAt(i)) ELSE acc)
             known == InOrder(1, <<>>)
             general == GeneralPass(toks, 1, <<>>)
         IN  moa_block.securities =
                 IF known # <<>> THEN known
                 ELSE IF general # <<>> THEN general
                 ELSE ExtractSecuritiesContextual(toks, 1, <<>>)

\* C22: in the general-ticker pass a ticker loses an 'MBS' prefix; 'SF'
\* becomes G2SF if G2SF occurs in the text and FGSF otherwise; a ticker that
\* ends in 'NCI' becomes FNCI; a ticker that ends in 'SF' and does not start
\* with 'G2' becomes G2SF; the repaired ticker gives the security 'TICKER
\* RATE', and any other ticker gives one only if it is 2 to 5 upper-case
\* letters.
C22_TickerCleaning ==
    LET toks == moa_block.text
        Cleaned(ticker) ==
            LET t == IF StartsWith(ticker, <<"M", "B", "S">>)
                     THEN SubSeq(ticker, 4, Len(ticker)) ELSE ticker
            IN  IF t = <<"S", "F">>
                THEN IF Contains(Upper(Text(toks)), <<"G", "2", "S", "F">>) THEN <<"G", "2", "S", "F">> ELSE <<"F", "G", "S", "F">>
                ELSE IF EndsWith(t, <<"N", "C", "I">>) THEN <<"F", "N", "C", "I">>
                ELSE IF EndsWith(t, <<"S", "F">>) /\ ~StartsWith(t, <<"G", "2">>) THEN <<"G", "2", "S", "F">>
                ELSE IF Len(t) \in 2..5 /\ \A i \in DOMAIN t : IsIn(t[i], UpperCase)
                THEN t ELSE <<>>
        RECURSIVE Emitted(_, _)
        Emitted(i, acc) ==
            IF i >= Len(toks) THEN acc
            ELSE LET ticker == UpperRun(TokText(toks[i])) IN
                 Emitted(i + 1,
                         IF ticker # <<>> /\ toks[i + 1].k = "rate" /\ Cleaned(ticker) # <<>>
                         THEN AppendNew(acc, Security(Cleaned(ticker), toks[i + 1].s))
                         ELSE acc)
    IN  (/\ moa_block.pass = "exact"
         /\ KnownPass(toks, 1, PatternMatches(toks, KnownTickers[1], 1), <<>>) = <<>>
         /\ Emitted(1, <<>>) # <<>>)
        => moa_block.securities = Emitted(1, <<>>)

\* C23: in parse_exact_format every line of the data region that begins
\* with a date starts exactly one block; the block is that line and the
\* lines after it up to, and without, the next line that begins with a date
\* or holds a footer phrase, or up to the end; no line is in two blocks, the
\* text of the block is that of its lines, every step of the scan moves on
\* by a line at least and the scan does not pass the end of the lines.
C23_BlockSegmentation ==
    /\ [](LET start == FindTableStart(moa_text, 1)
              blocks == moa_block.blocks
              n == Len(moa_text)
              Footer(line) ==
                  \E phrase \in {<<"s", "e", "t", "t", "l", "e", "m", "e", "n", "t", " ", "d", "a", "t", "e", "s">>, <<"f", "o", "r", " ", "s", "m", "a", "l", "l", " ", "v", "a", "l", "u", "e">>,
                                 <<"t", "h", "e", " ", "f", "n", "c", "l">>, <<"t", "e", "n", "t", "a", "t", "i", "v", "e", " ", "s", "c", "h", "e", "d", "u", "l", "e">>} :
                      Contains(Lower(Text(line)), phrase)
              Ends(line) == StartsWithDate(line) \/ Footer(line)
          IN  /\ \A k \in DOMAIN blocks :
                     /\ start <= blocks[k].first /\ blocks[k].first <= blocks[k].last
                     /\ blocks[k].last <= n
                     /\ StartsWithDate(moa_text[blocks[k].first])
                     /\ \A j \in (blocks[k].first + 1)..blocks[k].last : ~Ends(moa_text[j])
                     /\ blocks[k].last < n => Ends(moa_text[blocks[k].last + 1])
                     /\ k > 1 => blocks[k - 1].last < blocks[k].first
              /\ moa_block.pass = "exact" =>
                     moa_block.text =
                         Flatten(SubSeq(moa_text, blocks[Len(blocks)].first,
                                        blocks[Len(blocks)].last))
              /\ moa_pc = "exact" =>
                     /\ moa_i <= n + 1
                     /\ \A k \in DOMAIN blocks : blocks[k].last < moa_i
              /\ \A j \in start..(IF moa_pc = "exact" THEN moa_i - 1 ELSE n) :
                     (start # 0 /\ moa_pc # "idle" /\ StartsWithDate(moa_text[j]))
                     => Cardinality({k \in DOMAIN blocks : blocks[k].first = j}) = 1)
    /\ [][(moa_pc = "exact" /\ moa_pc' = "exact") => moa_i' > moa_i]_vars

\* a block of one line ended by a footer line, and the block of the line
\* with a date after the footer
C23_Witness ==
    /\ moa_pc = "done"
    /\ moa_block.blocks = <<[first |-> 1, last |-> 1], [first |-> 3, last |-> 3]>>
    /\ ~StartsWithDate(moa_text[2])
    /\ Len(moa_ops) >= 2

\* C24: parse_tabular_data runs the fallback line scanner if and only if
\* the structured pass gave no record, also when no table start was found:
\* it returns without the fallback only with a record of the structured
\* pass, and the fallback starts only when there is none.
C24_FallbackTrigger ==
    [][/\ (moa_pc \in {"idle", "exact"} /\ moa_pc' = "done") => moa_ops' # <<>>
       /\ (moa_pc # "fallback" /\ moa_pc' = "fallback") => moa_ops = <<>>]_vars

\* C25: in the fallback pass a record whose security contains FNCI has the
\* type 'TBA Purchase: 15-year Uniform MBS', one with G2SF 'TBA Purchase:
\* 30-year Ginnie Mae', one with FNCL 'TBA Purchase: 30-year Uniform MBS',
\* whatever type the block text gave, and any other record has the type
\* detected for the block; in the structured pass every record has the
\* type detected for the block.
C25_TypeOverride ==
    \A i \in DOMAIN moa_block.records :
        LET r == moa_block.records[i] IN
        /\ moa_block.pass = "exact" => r.OperationType = moa_block.type
        /\ moa_block.pass = "fallback" =>
             r.OperationType =
                 IF Contains(r.Securities, <<"F", "N", "C", "I">>)
                 THEN <<"T", "B", "A", " ", "P", "u", "r", "c", "h", "a", "s", "e", ":", " ", "1", "5", "-", "y", "e", "a", "r", " ", "U", "n", "i", "f", "o", "r", "m", " ", "M", "B", "S">>
                 ELSE IF Contains(r.Securities, <<"G", "2", "S", "F">>)
                 THEN <<"T", "B", "A", " ", "P", "u", "r", "c", "h", "a", "s", "e", ":", " ", "3", "0", "-", "y", "e", "a", "r", " ", "G", "i", "n", "n", "i", "e", " ", "M", "a", "e">>
                 ELSE IF Contains(r.Securities, <<"F", "N", "C", "L">>)
                 THEN <<"T", "B", "A", " ", "P", "u", "r", "c", "h", "a", "s", "e", ":", " ", "3", "0", "-", "y", "e", "a", "r", " ", "U", "n", "i", "f", "o", "r", "m", " ", "M", "B", "S">>
                 ELSE moa_block.type

\* a block of the fallback pass whose text gave 'TBA Purchase': its UMBS
\* record keeps that type and its FNCI record has the 15-year type
C25_Witness ==
    /\ moa_block.pass = "fallback"
    /\ moa_block.type = <<"T", "B", "A", " ", "P", "u", "r", "c", "h", "a", "s", "e">>
    /\ Len(moa_block.records) = 2
    /\ moa_block.records[1].Securities = <<"U", "M", "B", "S", " ", "5", ".", "5">>
    /\ moa_block.records[1].OperationType = <<"T", "B", "A", " ", "P", "u", "r", "c", "h", "a", "s", "e">>
    /\ moa_block.records[2].Securities = <<"F", "N", "C", "I", " ", "5", ".", "0">>
    /\ moa_block.records[2].OperationType = <<"T", "B", "A", " ", "P", "u", "r", "c", "h", "a", "s", "e", ":", " ", "1", "5", "-", "y", "e", "a", "r", " ", "U", "n", "i", "f", "o", "r", "m", " ", "M", "B", "S">>

\* C30: for a block with a matched amount the individual amounts are not
\* empty and are, in value, a sub-list of the matched amounts in their
\* order; from three matched amounts on, all are kept or all but one, the
\* one left out being the single largest, so that the list is never empty
\* and never replaced by all amounts but the last.
C30_IndividualAmountsNonEmpty ==
    (moa_block.pass = "exact" /\ moa_block.matched # <<>>)
    => LET v == [i \in DOMAIN moa_block.matched |-> Decimal(moa_block.matched[i])]
           w == [i \in DOMAIN moa_block.individual |-> Decimal(moa_block.individual[i])]
           RECURSIVE SubList(_, _)
           SubList(a, b) ==
               IF a = <<>> THEN TRUE
               ELSE IF b = <<>> THEN FALSE
               ELSE IF Head(a) = Head(b) THEN SubList(Tail(a), Tail(b))
               ELSE SubList(a, Tail(b))
       IN  /\ w # <<>>
           /\ SubList(w, v)
           /\ Len(v) > 2 =>
                \/ w = v
                \/ \E p \in DOMAIN v :
                      /\ w = SubSeq(v, 1, p - 1) \o SubSeq(v, p + 1, Len(v))
                      /\ \A j \in DOMAIN v : j # p => v[j] < v[p]

\* three matched amounts, the largest in the middle: the first and the
\* last are the individual amounts
C30_Witness ==
    /\ moa_block.pass = "exact"
    /\ moa_block.matched = <<<<"2", "4">>, <<"5", "0">>, <<"2", "4">>>>
    /\ moa_block.individual = <<<<"2", "4">>, <<"2", "4">>>>

\* ---------------------------------------------------------------------
\* Further properties of the release-date resolver and the PDF builders
\* ---------------------------------------------------------------------

\* C28: a PDF parse that returns records, by EnhancedFRBNYParser or by
\* CombinedFRBNYScraper.parse_pdf, has made no request for the live page,
\* and the release date of each record is its own operation date as
\* YYYYMMDD, its settlement date if the operation date does not parse, the
\* current date if neither parses.
C28_PdfOnlyReleaseDate ==
    (pc = "done" /\ outcome = "returned" /\ path \in {"pdf", "enhanced"})
    => /\ tried = <<>>
       /\ \A i \in DOMAIN operations :
              operations[i].release_date =
                  IF operations[i].operation_date # NoDate
                       /\ Strptime(operations[i].operation_date)
                  THEN Strftime(operations[i].operation_date)
                  ELSE IF operations[i].settlement_date # NoDate
                            /\ Strptime(operations[i].settlement_date)
                  THEN Strftime(operations[i].settlement_date)
                  ELSE Strftime(today)

\* C29: calculate_dataset_release_date accepts the candidate of the direct
\* fetch or of the markup parse exactly when _is_reasonable_release_date
\* finds it a valid date that lies, in days, between one year before today
\* and two years after today.
C29_ReasonablenessWindow ==
    [][(pc \in {"web_ret", "bs_ret"} /\ path \in {"calc", "pdf", "browser"}
          /\ release_date # 0)
       => LET dt == Date(release_date \div 10000, (release_date \div 100) % 100,
                         release_date % 100)
          IN  (pc' = "resolved")
              <=> /\ Strptime(dt)
                  /\ Ordinal(Date(today.y - 1, today.m, today.d)) <= Ordinal(dt)
                  /\ Ordinal(dt) <= Ordinal(Date(today.y + 2, today.m, today.d))]_vars

-----------------------------------------------------------------------------
(***************************************************************************)
(* The row-pair loop of CombinedFRBNYScraper.parse_pdf_table and of         *)
(* EnhancedFRBNYParser.parse_table on one table, a pass of the while loop   *)
(* a step.  Rows are numbered from 1; firsts is kept for the properties.    *)
(***************************************************************************)
MaxTableRows == 3   \* rows of the table

\* operations = []; data_start = find_pdf_data_start(table); i = data_start
InitPdfTable ==
    /\ today = Date(2026, 11, 3)
    /\ DateIdle /\ MoaIdle /\ CsvIdle /\ NormIdle
    /\ doc_parser = "none" /\ doc_data = <<>> /\ doc_own = <<>>
    /\ doc_ret = [kind |-> "none", recs |-> <<>>] /\ doc_calls = 0
    /\ csvd_columns = <<>> /\ csvd_rows = <<>> /\ csvd_mapping = <<>>
    /\ csvd_i = 0 /\ csvd_data = <<>>
    /\ csvd_parsed = <<>> /\ csvd_pc = "idle"
    /\ web_log = <<>>
    /\ run = [pc |-> "idle", pdf_path |-> FALSE, data |-> <<>>,
              source_type |-> "none", tried |-> <<>>,
              got |-> [csv |-> <<>>, browser |-> <<>>, pdf |-> <<>>],
              result |-> "none"]
    /\ \E parser \in {"combined", "enhanced"}, n \in 1..MaxTableRows :
         \E table \in [1..n -> PdfRows] :
            pdf_table = [pc |-> "loop", parser |-> parser, table |-> table,
                         i |-> FindPdfDataStart(table, 1),
                         operations |-> <<>>, firsts |-> <<>>]

\* a pass of the loop that moves on by one row whatever the pair gave
ParsePdfTableStepByOne ==
    /\ pdf_table.pc = "loop" /\ pdf_table.parser = "combined"
    /\ LET table == pdf_table.table
           i == pdf_table.i
           operation == ParsePdfColumns(table[i])
       IN  pdf_table' =
               [pdf_table EXCEPT
                  !.i = i + 1,
                  !.operations = IF IsValidPdfOperation(operation)
                                 THEN Append(@, operation) ELSE @,
                  !.firsts = IF IsValidPdfOperation(operation)
                             THEN Append(@, i) ELSE @,
                  !.pc = IF i + 1 > Len(table) THEN "done" ELSE "loop"]
    /\ UNCHANGED <<dateVars, moaVars, csvVars, normVars>>
    /\ UNCHANGED <<doc_parser, doc_data, doc_own, doc_ret, doc_calls,
                   csvd_columns, csvd_rows, csvd_mapping, csvd_i, csvd_data,
                   csvd_parsed, csvd_pc, web_log, run>>

\* parse_pdf_table: one pass of "while i < len(table)", and the return when
\* the test fails after it
ParsePdfTableStep ==
    /\ pdf_table.pc = "loop" /\ pdf_table.parser = "combined"
    /\ LET table == pdf_table.table
           i == pdf_table.i
           row1 == table[i]
           row2 == IF i + 1 <= Len(table) THEN table[i + 1] ELSE EmptyRow
           operation == ParsePdfColumns(row1)
           appended == /\ ~(IsEmptyRow(row1) /\ IsEmptyRow(row2))
                       /\ IsValidPdfOperation(operation)
           next_i == IF appended THEN i + 2 ELSE i + 1
       IN  pdf_table' =
               [pdf_table EXCEPT
                  !.i = next_i,
                  !.operations = IF appended THEN Append(@, operation) ELSE @,
                  !.firsts = IF appended THEN Append(@, i) ELSE @,
                  !.pc = IF next_i > Len(table) THEN "done" ELSE "loop"]
    /\ UNCHANGED <<dateVars, moaVars, csvVars, normVars>>
    /\ UNCHANGED <<doc_parser, doc_data, doc_own, doc_ret, doc_calls,
                   csvd_columns, csvd_rows, csvd_mapping, csvd_i, csvd_data,
                   csvd_parsed, csvd_pc, web_log, run>>

\* EnhancedFRBNYParser.parse_table: one pass of "while i < len(table)", and
\* the return when the test fails after it
ParseTableStep ==
    /\ pdf_table.pc = "loop" /\ pdf_table.parser = "enhanced"
    /\ LET table == pdf_table.table
           i == pdf_table.i
           row1 == table[i]
           row2 == IF i + 1 <= Len(table) THEN table[i + 1] ELSE EmptyRow
           operation == ParseOperation(row1, today)
           appended == /\ ~(IsEmptyRow(row1) /\ IsEmptyRow(row2))
                       /\ IsValidOperation(operation)
           next_i == IF appended THEN i + 2 ELSE i + 1
       IN  pdf_table' =
               [pdf_table EXCEPT
                  !.i = next_i,
                  !.operations = IF appended THEN Append(@, operation) ELSE @,
                  !.firsts = IF appended THEN Append(@, i) ELSE @,
                  !.pc = IF next_i > Len(table) THEN "done" ELSE "loop"]
    /\ UNCHANGED <<dateVars, moaVars, csvVars, normVars>>
    /\ UNCHANGED <<doc_parser, doc_data, doc_own, doc_ret, doc_calls,
                   csvd_columns, csvd_rows, csvd_mapping, csvd_i, csvd_data,
                   csvd_parsed, csvd_pc, web_log, run>>

SpecPdfTable == InitPdfTable /\ [][ParsePdfTableStep \/ ParseTableStep]_vars

\* C27: a pass of the row loop that appends a record moves on by two rows
\* and any other pass by one; the first rows of two records are two rows
\* apart at least, so the second row of a pair never starts a record; the
\* index never passes the end by more than one row, the records are no more
\* than the rows from the data start on, and the loop ends with the list of
\* parse_pdf_table / parse_table.
C27_RowPairing ==
    /\ [](pdf_table.pc # "idle" =>
            LET table == pdf_table.table
                data_start == FindPdfDataStart(table, 1)
                firsts == pdf_table.firsts
            IN  /\ Len(pdf_table.operations) = Len(firsts)
                /\ \A k \in DOMAIN firsts :
                       /\ data_start <= firsts[k] /\ firsts[k] <= Len(table)
                       /\ firsts[k] + 2 <= pdf_table.i
                       /\ k > 1 => firsts[k - 1] + 2 <= firsts[k]
                /\ data_start <= pdf_table.i /\ pdf_table.i <= Len(table) + 2
                /\ Len(pdf_table.operations) <= Len(table) - data_start + 1
                /\ pdf_table.pc = "done" <=> pdf_table.i > Len(table)
                /\ pdf_table.pc = "done" =>
                       pdf_table.operations =
                           IF pdf_table.parser = "combined"
                           THEN ParsePdfTable(table, data_start, <<>>)
                           ELSE ParseTable(table, data_start, <<>>, today))
    /\ [][pdf_table' # pdf_table =>
            /\ pdf_table.pc = "loop"
            /\ pdf_table'.i = pdf_table.i
                   + (IF Len(pdf_table'.operations) > Len(pdf_table.operations)
                      THEN 2 ELSE 1)]_vars

\* three rows: the first two are one record, the third is the next
C27_Witness ==
    /\ pdf_table.pc = "done" /\ pdf_table.parser = "combined"
    /\ Len(pdf_table.table) = 3
    /\ pdf_table.firsts = <<1, 3>>
    /\ pdf_table.table[2].kind = "data"
    /\ IsValidPdfOperation(ParsePdfColumns(pdf_table.table[2]))

-----------------------------------------------------------------------------
(***************************************************************************)
(* CombinedFRBNYScraper.run(url, pdf_path) on a new instance: the direct    *)
(* CSV, the rendered table, the PDF.  A call of a source is one step; got   *)
(* keeps what each call returned (<<>> for None and for the empty list).    *)
(***************************************************************************)

\* scraper = CombinedFRBNYScraper(); scraper.run(args.url, args.pdf)
InitRun ==
    /\ today = Date(2026, 11, 3)
    /\ DateIdle /\ MoaIdle /\ CsvIdle /\ NormIdle
    /\ doc_parser = "none" /\ doc_data = <<>> /\ doc_own = <<>>
    /\ doc_ret = [kind |-> "none", recs |-> <<>>] /\ doc_calls = 0
    /\ csvd_columns = <<>> /\ csvd_rows = <<>> /\ csvd_mapping = <<>>
    /\ csvd_i = 0 /\ csvd_data = <<>>
    /\ csvd_parsed = <<>> /\ csvd_pc = "idle"
    /\ web_log = <<>>
    /\ pdf_table = [pc |-> "idle", parser |-> "none", table |-> <<>>, i |-> 0,
                    operations |-> <<>>, firsts |-> <<>>]
    /\ \E pdf_path \in BOOLEAN :
         run = [pc |-> "csv", pdf_path |-> pdf_path, data |-> <<>>,
                source_type |-> "none", tried |-> <<>>,
                got |-> [csv |-> <<>>, browser |-> <<>>, pdf |-> <<>>],
                result |-> "none"]

\* a direct CSV fetch after which the rendered table is read in any case
RunFetchCsvDirectThenBrowser ==
    /\ run.pc = "csv"
    /\ \E fetched_ok \in BOOLEAN, processed_data \in RecLists :
         IF fetched_ok /\ processed_data # <<>>
         THEN run' = [run EXCEPT !.tried = Append(@, "csv"),
                                 !.got.csv = Stamp(processed_data, CurrentDate(today)),
                                 !.data = Stamp(processed_data, CurrentDate(today)),
                                 !.source_type = "web", !.pc = "browser"]
         ELSE run' = [run EXCEPT !.tried = Append(@, "csv"), !.pc = "browser"]
    /\ UNCHANGED <<dateVars, moaVars, csvVars, normVars>>
    /\ UNCHANGED <<doc_parser, doc_data, doc_own, doc_ret, doc_calls,
                   csvd_columns, csvd_rows, csvd_mapping, csvd_i, csvd_data,
                   csvd_parsed, csvd_pc, web_log, pdf_table>>

\* scrape_current_schedule_table: fetch_csv_direct(url) and the test on its
\* result; run returns True when it gave records
RunFetchCsvDirect ==
    /\ run.pc = "csv"
    /\ \E fetched_ok \in BOOLEAN, processed_data \in RecLists :
         IF fetched_ok /\ processed_data # <<>>
         THEN \E rd \in
                  {r \in {WebSimpleAttempt(p, today) : p \in Pages}
                           \cup {BeautifulSoupResult(p) : p \in Pages} :
                      r # 0 /\ IsReasonableReleaseDate(r, today)}
                    \cup {CurrentDate(today)} :
                run' = [run EXCEPT !.tried = Append(@, "csv"),
                                   !.got.csv = Stamp(processed_data, rd),
                                   !.data = Stamp(processed_data, rd),
                                   !.source_type = "web",
                                   !.pc = "done", !.result = "True"]
         ELSE run' = [run EXCEPT !.tried = Append(@, "csv"), !.pc = "browser"]
    /\ UNCHANGED <<dateVars, moaVars, csvVars, normVars>>
    /\ UNCHANGED <<doc_parser, doc_data, doc_own, doc_ret, doc_calls,
                   csvd_columns, csvd_rows, csvd_mapping, csvd_i, csvd_data,
                   csvd_parsed, csvd_pc, web_log, pdf_table>>

\* scrape_current_schedule_table: scrape_with_browser(url), and the tests of
\* run on web_data and on pdf_path.  The date stamped is the one read from
\* the Operation Period Details, else that of calculate_dataset_release_date
RunScrapeWithBrowser ==
    /\ run.pc = "browser"
    /\ \E driver_ok \in BOOLEAN, processed_data \in RecLists :
         IF driver_ok /\ processed_data # <<>>
         THEN \E rd \in
                  {Strftime(c.e) : c \in {x \in DomCells : x # NoRange /\ Strptime(x.e)}}
                    \cup CalculateDatasetReleaseDate(processed_data, today)
                    \cup {CurrentDate(today)} :
                run' = [run EXCEPT !.tried = Append(@, "browser"),
                                   !.got.browser = Stamp(processed_data, rd),
                                   !.data = Stamp(processed_data, rd),
                                   !.source_type = "web",
                                   !.pc = "done", !.result = "True"]
         ELSE IF run.pdf_path
         THEN run' = [run EXCEPT !.tried = Append(@, "browser"), !.pc = "pdf"]
         ELSE run' = [run EXCEPT !.tried = Append(@, "browser"),
                                 !.pc = "done", !.result = "False"]
    /\ UNCHANGED <<dateVars, moaVars, csvVars, normVars>>
    /\ UNCHANGED <<doc_parser, doc_data, doc_own, doc_ret, doc_calls,
                   csvd_columns, csvd_rows, csvd_mapping, csvd_i, csvd_data,
                   csvd_parsed, csvd_pc, web_log, pdf_table>>

\* run: parse_pdf_fallback(pdf_path) and the test on pdf_data
RunParsePdfFallback ==
    /\ run.pc = "pdf"
    /\ \E exists \in BOOLEAN, pages \in Documents :
         LET own == DocumentOperations("combined", pages, 1, today)
             raised == \E i \in DOMAIN pages : PageRaises("combined", pages[i], today)
         IN  IF ~exists
             THEN run' = [run EXCEPT !.tried = Append(@, "pdf"),
                                     !.pc = "done", !.result = "False"]
             ELSE IF raised
             THEN run' = [run EXCEPT !.tried = Append(@, "pdf"),
                                     !.data = @ \o own,
                                     !.pc = "done", !.result = "False"]
             ELSE IF run.data \o own = <<>>
             THEN run' = [run EXCEPT !.tried = Append(@, "pdf"),
                                     !.pc = "done", !.result = "False"]
             ELSE \E rd \in CalculateDatasetReleaseDate(run.data \o own, today) :
                  run' = [run EXCEPT !.tried = Append(@, "pdf"),
                                     !.got.pdf = Stamp(run.data \o own, rd),
                                     !.data = Stamp(run.data \o own, rd),
                                     !.source_type = "pdf",
                                     !.pc = "done", !.result = "True"]
    /\ UNCHANGED <<dateVars, moaVars, csvVars, normVars>>
    /\ UNCHANGED <<doc_parser, doc_data, doc_own, doc_ret, doc_calls,
                   csvd_columns, csvd_rows, csvd_mapping, csvd_i, csvd_data,
                   csvd_parsed, csvd_pc, web_log, pdf_table>>

SpecRun ==
    InitRun /\ [][RunFetchCsvDirect \/ RunScrapeWithBrowser \/ RunParsePdfFallback]_vars

\* C26: run tries the direct CSV first, the rendered table only if the CSV
\* gave no record, and the PDF only if neither gave a record and a PDF path
\* was given; the first source that gives a record ends the run with True,
\* its records are self.data and its kind is source_type, and a run that
\* ends with False has tried every source it may try without a record.
C26_SourcePriority ==
    run.pc # "idle" =>
      LET order == <<"csv", "browser", "pdf">>
          n == Len(run.tried)
          Got(s) == IF s = "csv" THEN run.got.csv
                    ELSE IF s = "browser" THEN run.got.browser ELSE run.got.pdf
      IN  /\ n <= 3 /\ \A k \in 1..n : run.tried[k] = order[k]
          /\ \A k \in 1..(n - 1) : Got(order[k]) = <<>>
          /\ \A k \in (n + 1)..3 : Got(order[k]) = <<>>
          /\ n = 3 => run.pdf_path
          /\ run.pc # "done" => (n < 3 /\ run.pc = order[n + 1] /\ run.result = "none")
          /\ run.pc = "done" =>
               /\ n >= 1
               /\ run.result = (IF Got(order[n]) # <<>> THEN "True" ELSE "False")
               /\ run.result = "True" =>
                    /\ run.data = Got(order[n])
                    /\ run.source_type = (IF order[n] = "pdf" THEN "pdf" ELSE "web")
               /\ run.result = "False" =>
                    /\ n = (IF run.pdf_path THEN 3 ELSE 2)
                    /\ run.source_type = "none"

\* the CSV and the rendered table gave nothing and the PDF gives the records
C26_Witness ==
    /\ run.pc = "done" /\ run.result = "True"
    /\ run.tried = <<"csv", "browser", "pdf">>
    /\ run.source_type = "pdf"
    /\ run.data # <<>> /\ run.data = run.got.pdf

=============================================================================
